---- MODULE Spec2Model ----
(***************************************************************************)
(* Model of the Cassandra persistence adapter                              *)
(* (common/persistence/cassandra/cassandraPersistence.go).                 *)
(*                                                                         *)
(* The executions table of one shard is the variable `executions`: the     *)
(* shard row, the current-execution row of one (domain, workflow id), the  *)
(* execution rows of its runs and the transfer / timer / replication task  *)
(* rows.  Every operation builds a batch of CQL statements exactly as the  *)
(* Go code does and hands it to MapExecuteBatchCAS, which applies all of   *)
(* it or none of it and, when a condition fails, returns the existing rows *)
(* that carry a condition.  The tasks table, with the row of one task list  *)
(* and the rows of its tasks, is the variable `tasksTable`; `granted` is    *)
(* the set of the range_ids LeaseTaskList has returned for that list.      *)
(***************************************************************************)
EXTENDS Integers, Sequences, FiniteSets, TLC

VARIABLES executions, tasksTable, pending, applied, granted, last, calls

vars == <<executions, tasksTable, pending, applied, granted, last, calls>>

-----------------------------------------------------------------------------
(* Bounds of the model *)

MaxCalls == 2

MaxRangeID == 2

MaxEventID == 2

\* The highest task id of the task list read by GetTasks.
MaxTasks == 3

-----------------------------------------------------------------------------
(* Constants of the program *)

rowTypeShard == 0

rowTypeExecution == 1

permanentRunID == "30000000-0000-f000-f000-000000000001"

EmptyVersion == 0 - 24

Null == <<>>

RunIDs == {"r1", "r2", "r3"}

RequestIDs == {"q1"}

WorkflowStateCreated == "Created"

WorkflowStateRunning == "Running"

WorkflowStateCompleted == "Completed"

WorkflowStateZombie == "Zombie"

WorkflowCloseStatusNone == "None"

WorkflowCloseStatusCompleted == "Completed"

CreateWorkflowModeBrandNew == "BrandNew"

CreateWorkflowModeWorkflowIDReuse == "WorkflowIDReuse"

CreateWorkflowModeContinueAsNew == "ContinueAsNew"

CreateWorkflowModeZombie == "Zombie"

-----------------------------------------------------------------------------
(* Errors returned to the caller *)

NoError == [err |-> "none"]

ShardOwnershipLostError == [err |-> "ShardOwnershipLost"]

CurrentWorkflowConditionFailedError == [err |-> "CurrentWorkflowConditionFailed"]

ConditionFailedError(detail) == [err |-> "ConditionFailed", detail |-> detail]

EntityNotExistsError == [err |-> "EntityNotExists"]

TimeoutError == [err |-> "Timeout"]

ServiceBusyError == [err |-> "ServiceBusy"]

InternalServiceError == [err |-> "InternalServiceError"]

ShardAlreadyExistError == [err |-> "ShardAlreadyExist"]

\* A variant of the error below with RunID and StartRequestID swapped.
AlreadyStartedErrorWithSwappedIDs(execution, lastWriteVersion) ==
    [err              |-> "WorkflowExecutionAlreadyStarted",
     StartRequestID   |-> execution.run_id,
     RunID            |-> execution.create_request_id,
     State            |-> execution.state,
     CloseStatus      |-> execution.close_status,
     LastWriteVersion |-> lastWriteVersion]

WorkflowExecutionAlreadyStartedError(execution, lastWriteVersion) ==
    [err              |-> "WorkflowExecutionAlreadyStarted",
     StartRequestID   |-> execution.create_request_id,
     RunID            |-> execution.run_id,
     State            |-> execution.state,
     CloseStatus      |-> execution.close_status,
     LastWriteVersion |-> lastWriteVersion]

-----------------------------------------------------------------------------
(* Rows of the executions table *)

\* The shard row: the range_id column and the shard UDT.
ShardRow(shardInfo) ==
    [range_id |-> shardInfo.RangeID,
     shard    |-> [owner |-> shardInfo.Owner, range_id |-> shardInfo.RangeID]]

\* A variant of CurrentRow that does not carry the close status.
CurrentRowWithoutCloseStatus(runID, requestID, state, closeStatus, startVersion, lastWriteVersion) ==
    [current_run_id              |-> runID,
     execution                   |-> [run_id            |-> runID,
                                      create_request_id |-> requestID,
                                      state             |-> state,
                                      close_status      |-> WorkflowCloseStatusNone],
     replication_state           |-> [start_version      |-> startVersion,
                                      last_write_version |-> lastWriteVersion],
     workflow_last_write_version |-> lastWriteVersion,
     workflow_state              |-> state]

\* The current-execution row (run_id = permanentRunID) as every statement
\* that writes it sets it.
CurrentRow(runID, requestID, state, closeStatus, startVersion, lastWriteVersion) ==
    [current_run_id              |-> runID,
     execution                   |-> [run_id            |-> runID,
                                      create_request_id |-> requestID,
                                      state             |-> state,
                                      close_status      |-> closeStatus],
     replication_state           |-> [start_version      |-> startVersion,
                                      last_write_version |-> lastWriteVersion],
     workflow_last_write_version |-> lastWriteVersion,
     workflow_state              |-> state]

\* The execution UDT of a run's row.
ExecutionUDT(runID, requestID, state, closeStatus, nextEventID) ==
    [run_id            |-> runID,
     create_request_id |-> requestID,
     state             |-> state,
     close_status      |-> closeStatus,
     next_event_id     |-> nextEventID]

\* A run's row that no statement has written yet: every column is null.
EmptyExecutionRow ==
    [execution         |-> Null,
     next_event_id     |-> Null,
     replication_state |-> Null,
     version_histories |-> Null]

EmptyTable ==
    [shard       |-> Null,
     current     |-> Null,
     runs        |-> [r \in RunIDs |-> Null],
     transfer    |-> {},
     timer       |-> {},
     replication |-> {}]

\* The tasks table of one task list: the row of the task list (range_id
\* and the task_list UDT) and the rows of its tasks.
EmptyTasksTable ==
    [list |-> Null,
     rows |-> {}]

\* The row of the task list; expires tells whether it was written with a TTL.
TaskListRow(rangeID, ackLevel, kind, expires) ==
    [range_id  |-> rangeID,
     task_list |-> [ack_level |-> ackLevel, kind |-> kind],
     expires   |-> expires]

\* The row of a task.
TaskRow(taskID, expires) ==
    [task_id |-> taskID, expires |-> expires]

-----------------------------------------------------------------------------
(* CQL statements, one constructor per template of the source *)

templateCreateShardQuery(shardInfo) ==
    [stmt |-> "CreateShard", row |-> ShardRow(shardInfo)]

\* A variant of the statement below whose IF clause names the new range_id.
templateUpdateShardIfNewRangeID(shardInfo, previousRangeID) ==
    [stmt |-> "UpdateShard", row |-> ShardRow(shardInfo), ifRangeID |-> shardInfo.RangeID]

templateUpdateShardQuery(shardInfo, previousRangeID) ==
    [stmt |-> "UpdateShard", row |-> ShardRow(shardInfo), ifRangeID |-> previousRangeID]

\* A variant of the statement below that writes the next range_id.
templateUpdateLeaseAdvancing(rangeID) ==
    [stmt |-> "UpdateLease", range_id |-> rangeID + 1, ifRangeID |-> rangeID]

\* A variant of the statement below that writes range_id 0.
templateUpdateLeaseClearing(rangeID) ==
    [stmt |-> "UpdateLease", range_id |-> 0, ifRangeID |-> rangeID]

templateUpdateLeaseQuery(rangeID) ==
    [stmt |-> "UpdateLease", range_id |-> rangeID, ifRangeID |-> rangeID]

templateCreateCurrentWorkflowExecutionQuery(row) ==
    [stmt |-> "CreateCurrent", row |-> row]

\* A variant of the statement below that leaves current_run_id as it was.
templateUpdateCurrentKeepingRunID(row, ifCurrentRunID) ==
    [stmt |-> "UpdateCurrent", row |-> [row EXCEPT !.current_run_id = ifCurrentRunID],
     ifCurrentRunID |-> ifCurrentRunID]

templateUpdateCurrentWorkflowExecutionQuery(row, ifCurrentRunID) ==
    [stmt |-> "UpdateCurrent", row |-> row, ifCurrentRunID |-> ifCurrentRunID]

\* A variant of the statement below whose IF clause names current_run_id only.
templateUpdateCurrentForNewOnRunIDOnly(row, ifCurrentRunID, ifLastWriteVersion, ifState) ==
    [stmt |-> "UpdateCurrent", row |-> row, ifCurrentRunID |-> ifCurrentRunID]

templateUpdateCurrentWorkflowExecutionForNewQuery(row, ifCurrentRunID, ifLastWriteVersion, ifState) ==
    [stmt |-> "UpdateCurrentForNew", row |-> row, ifCurrentRunID |-> ifCurrentRunID,
     ifLastWriteVersion |-> ifLastWriteVersion, ifState |-> ifState]

templateCreateWorkflowExecutionQuery(runID, execution, nextEventID) ==
    [stmt |-> "CreateExecution", run_id |-> runID,
     set |-> [execution |-> execution, next_event_id |-> nextEventID]]

templateCreateWorkflowExecutionWithReplicationQuery(runID, execution, replicationState, nextEventID) ==
    [stmt |-> "CreateExecution", run_id |-> runID,
     set |-> [execution |-> execution, replication_state |-> replicationState,
              next_event_id |-> nextEventID]]

templateCreateWorkflowExecutionWithVersionHistoriesQuery(runID, execution, nextEventID, versionHistories) ==
    [stmt |-> "CreateExecution", run_id |-> runID,
     set |-> [execution |-> execution, next_event_id |-> nextEventID,
              version_histories |-> versionHistories]]

\* A variant of the statement below that does not set next_event_id.
templateUpdateWithoutNextEventID(runID, execution, nextEventID) ==
    [stmt |-> "UpdateExecution", run_id |-> runID, useCondition |-> FALSE, condition |-> 0,
     set |-> [execution |-> execution]]

templateUpdateWorkflowExecutionQuery(runID, execution, nextEventID) ==
    [stmt |-> "UpdateExecution", run_id |-> runID, useCondition |-> FALSE, condition |-> 0,
     set |-> [execution |-> execution, next_event_id |-> nextEventID]]

templateUpdateWorkflowExecutionWithReplicationQuery(runID, execution, replicationState, nextEventID) ==
    [stmt |-> "UpdateExecution", run_id |-> runID, useCondition |-> FALSE, condition |-> 0,
     set |-> [execution |-> execution, replication_state |-> replicationState,
              next_event_id |-> nextEventID]]

templateUpdateWorkflowExecutionWithVersionHistoriesQuery(runID, execution, nextEventID, versionHistories) ==
    [stmt |-> "UpdateExecution", run_id |-> runID, useCondition |-> FALSE, condition |-> 0,
     set |-> [execution |-> execution, next_event_id |-> nextEventID,
              version_histories |-> versionHistories]]

\* A variant of the statement below without its IF clause.
templateCheckWithoutCondition(runID, condition) ==
    [stmt |-> "UpdateExecution", run_id |-> runID, useCondition |-> FALSE, condition |-> condition,
     set |-> [next_event_id |-> condition]]

templateCheckWorkflowExecutionQuery(runID, condition) ==
    [stmt |-> "UpdateExecution", run_id |-> runID, useCondition |-> TRUE, condition |-> condition,
     set |-> [next_event_id |-> condition]]

templateCreateTransferTaskQuery(task) ==
    [stmt |-> "CreateTransferTask", task |-> task]

templateCreateReplicationTaskQuery(task) ==
    [stmt |-> "CreateReplicationTask", task |-> task]

templateCreateTimerTaskQuery(task) ==
    [stmt |-> "CreateTimerTask", task |-> task]

templateDeleteWorkflowExecutionMutableStateQuery(runID) ==
    [stmt |-> "DeleteExecution", run_id |-> runID]

\* The delete of the row with run_id = permanentRunID, "if current_run_id = ?".
templateDeleteWorkflowExecutionCurrentRowQuery(ifCurrentRunID) ==
    [stmt |-> "DeleteCurrent", ifCurrentRunID |-> ifCurrentRunID]

\* The delete of one row of the transfer or of the replication queue:
\* CompleteReplicationTask uses the template of the transfer tasks with the
\* row type of the replication tasks.
templateCompleteTransferTaskQuery(queue, visibilityTimestamp, taskID) ==
    [stmt |-> "CompleteTask", queue |-> queue, visibility_ts |-> visibilityTimestamp,
     task_id |-> taskID]

\* task_id > ? and task_id <= ?
templateRangeCompleteTransferTaskQuery(visibilityTimestamp, exclusiveBeginTaskID, inclusiveEndTaskID) ==
    [stmt |-> "RangeCompleteTransferTask", visibility_ts |-> visibilityTimestamp,
     begin |-> exclusiveBeginTaskID, end |-> inclusiveEndTaskID]

templateCompleteTimerTaskQuery(visibilityTimestamp, taskID) ==
    [stmt |-> "CompleteTask", queue |-> "timer", visibility_ts |-> visibilityTimestamp,
     task_id |-> taskID]

\* visibility_ts >= ? and visibility_ts < ?
templateRangeCompleteTimerTaskQuery(start, end) ==
    [stmt |-> "RangeCompleteTimerTask", start |-> start, end |-> end]

templateCreateTaskQuery(taskID) ==
    [stmt |-> "CreateTask", task |-> TaskRow(taskID, FALSE)]

templateCreateTaskWithTTLQuery(taskID) ==
    [stmt |-> "CreateTask", task |-> TaskRow(taskID, TRUE)]

templateCompleteTaskQuery(taskID) ==
    [stmt |-> "CompleteTaskOfList", task_id |-> taskID]

\* A variant of the statement below for the task ids below the given one.
templateCompleteTasksBelowQuery(taskID) ==
    [stmt |-> "CompleteTasksLessThan", task_id |-> taskID - 1]

\* task_id <= ?
templateCompleteTasksLessThanQuery(taskID) ==
    [stmt |-> "CompleteTasksLessThan", task_id |-> taskID]

\* A variant of the statement below without IF NOT EXISTS.
templateInsertTaskListOverwriting(rangeID, ackLevel, kind) ==
    [stmt |-> "InsertTaskListWithTTL", row |-> TaskListRow(rangeID, ackLevel, kind, FALSE)]

\* INSERT ... IF NOT EXISTS
templateInsertTaskListQuery(rangeID, ackLevel, kind) ==
    [stmt |-> "InsertTaskList", row |-> TaskListRow(rangeID, ackLevel, kind, FALSE)]

\* A variant of the statement below without its IF clause.
templateUpdateTaskListWithoutCondition(rangeID, ackLevel, kind, ifRangeID) ==
    [stmt |-> "InsertTaskListWithTTL", row |-> TaskListRow(rangeID, ackLevel, kind, FALSE)]

\* UPDATE ... IF range_id = ?
templateUpdateTaskListQuery(rangeID, ackLevel, kind, ifRangeID) ==
    [stmt |-> "UpdateTaskList", row |-> TaskListRow(rangeID, ackLevel, kind, FALSE),
     ifRangeID |-> ifRangeID]

\* A variant of the statement below as an UPDATE ... IF range_id = ?.
templateUpdateTaskListWithTTLIfRangeID(rangeID, ackLevel, kind) ==
    [stmt |-> "UpdateTaskList", row |-> TaskListRow(rangeID, ackLevel, kind, TRUE),
     ifRangeID |-> rangeID]

\* INSERT ... USING TTL ?, with no IF clause
templateUpdateTaskListQueryWithTTL(rangeID, ackLevel, kind) ==
    [stmt |-> "InsertTaskListWithTTL", row |-> TaskListRow(rangeID, ackLevel, kind, TRUE)]

\* DELETE ... IF range_id = ?
templateDeleteTaskListQuery(ifRangeID) ==
    [stmt |-> "DeleteTaskList", ifRangeID |-> ifRangeID]

\* A variant of batchQueryHelper that never appends the condition.
batchQueryHelperWithoutCondition(batch, stmt, useCondition, condition) ==
    Append(batch, stmt)

\* batchQueryHelper appends " IF next_event_id = ?" and the condition to the
\* statement when useCondition is set, and adds the statement to the batch.
batchQueryHelper(batch, stmt, useCondition, condition) ==
    IF useCondition
    THEN Append(batch, [stmt EXCEPT !.useCondition = TRUE, !.condition = condition])
    ELSE Append(batch, stmt)

-----------------------------------------------------------------------------
(* The backing store: conditional batches on the executions table *)

rowTypeShardRunID == "30000000-1000-f000-f000-000000000000"

\* The type of the row of the task list in the tasks table.
rowTypeTaskList == 1

IsConditional(s) ==
    \/ s.stmt \in {"CreateShard", "UpdateShard", "UpdateLease", "CreateCurrent",
                   "UpdateCurrent", "UpdateCurrentForNew", "DeleteCurrent",
                   "InsertTaskList", "UpdateTaskList", "DeleteTaskList"}
    \/ s.stmt = "UpdateExecution" /\ s.useCondition

\* The IF clause of a statement, evaluated on the table as it is before the
\* batch.  A condition on a column of a row that does not exist is false.
StatementHolds(db, s) ==
    CASE s.stmt = "CreateShard"   -> db.shard = Null
      [] s.stmt = "UpdateShard"   -> db.shard # Null /\ db.shard.range_id = s.ifRangeID
      [] s.stmt = "UpdateLease"   -> db.shard # Null /\ db.shard.range_id = s.ifRangeID
      [] s.stmt = "CreateCurrent" -> db.current = Null
      [] s.stmt \in {"UpdateCurrent", "DeleteCurrent"} ->
            db.current # Null /\ db.current.current_run_id = s.ifCurrentRunID
      [] s.stmt = "UpdateCurrentForNew" ->
            /\ db.current # Null
            /\ db.current.current_run_id = s.ifCurrentRunID
            /\ db.current.workflow_last_write_version = s.ifLastWriteVersion
            /\ db.current.workflow_state = s.ifState
      [] s.stmt = "UpdateExecution" ->
            \/ ~s.useCondition
            \/ db.runs[s.run_id] # Null /\ db.runs[s.run_id].next_event_id = s.condition
      [] s.stmt = "InsertTaskList" -> db.list = Null
      [] s.stmt \in {"UpdateTaskList", "DeleteTaskList"} ->
            db.list # Null /\ db.list.range_id = s.ifRangeID
      [] OTHER -> TRUE

\* INSERT and UPDATE both upsert: they set the columns they name and leave
\* the other columns of an existing row as they are.
SetColumns(row, set) ==
    LET old == IF row = Null THEN EmptyExecutionRow ELSE row
    IN  [c \in DOMAIN old |-> IF c \in DOMAIN set THEN set[c] ELSE old[c]]

\* A task row is keyed by (visibility_ts, task_id): an insert replaces the
\* row with the same key.
InsertTask(queue, task) ==
    {t \in queue : ~(t.task_id = task.task_id /\ t.visibility_ts = task.visibility_ts)}
        \cup {task}

ApplyStatement(db, s) ==
    CASE s.stmt \in {"CreateShard", "UpdateShard"} -> [db EXCEPT !.shard = s.row]
      [] s.stmt = "UpdateLease" -> [db EXCEPT !.shard.range_id = s.range_id]
      [] s.stmt \in {"CreateCurrent", "UpdateCurrent", "UpdateCurrentForNew"} ->
            [db EXCEPT !.current = s.row]
      [] s.stmt \in {"CreateExecution", "UpdateExecution"} ->
            [db EXCEPT !.runs[s.run_id] = SetColumns(db.runs[s.run_id], s.set)]
      [] s.stmt = "CreateTransferTask" ->
            [db EXCEPT !.transfer = InsertTask(db.transfer, s.task)]
      [] s.stmt = "CreateTimerTask" ->
            [db EXCEPT !.timer = InsertTask(db.timer, s.task)]
      [] s.stmt = "CreateReplicationTask" ->
            [db EXCEPT !.replication = InsertTask(db.replication, s.task)]
      [] s.stmt \in {"InsertTaskList", "UpdateTaskList", "InsertTaskListWithTTL"} ->
            [db EXCEPT !.list = s.row]
      [] s.stmt = "DeleteTaskList" -> [db EXCEPT !.list = Null]
      [] s.stmt = "CreateTask" ->
            [db EXCEPT !.rows = {t \in @ : t.task_id # s.task.task_id} \cup {s.task}]
      [] s.stmt = "CompleteTaskOfList" ->
            [db EXCEPT !.rows = {t \in @ : t.task_id # s.task_id}]
      [] s.stmt = "CompleteTasksLessThan" ->
            [db EXCEPT !.rows = {t \in @ : ~(t.task_id <= s.task_id)}]
      [] s.stmt = "DeleteExecution" -> [db EXCEPT !.runs[s.run_id] = Null]
      [] s.stmt = "DeleteCurrent" -> [db EXCEPT !.current = Null]
      [] s.stmt = "CompleteTask" ->
            [db EXCEPT ![s.queue] =
                {t \in @ : ~(t.visibility_ts = s.visibility_ts /\ t.task_id = s.task_id)}]
      [] s.stmt = "RangeCompleteTransferTask" ->
            [db EXCEPT !.transfer =
                {t \in @ : ~(/\ t.visibility_ts = s.visibility_ts
                             /\ t.task_id > s.begin
                             /\ t.task_id <= s.end)}]
      [] s.stmt = "RangeCompleteTimerTask" ->
            [db EXCEPT !.timer =
                {t \in @ : ~(t.visibility_ts >= s.start /\ t.visibility_ts < s.end)}]

RECURSIVE ApplyBatch(_, _)
ApplyBatch(db, batch) ==
    IF batch = <<>> THEN db
    ELSE ApplyBatch(ApplyStatement(db, Head(batch)), Tail(batch))

\* The columns of the result set of a rejected batch: with an IF NOT EXISTS
\* in the batch every column, otherwise the columns named in its conditions.
ReturnedColumns(batch) ==
    LET cond == {batch[i] : i \in {j \in 1..Len(batch) : IsConditional(batch[j])}}
    IN  IF \E s \in cond : s.stmt \in {"CreateShard", "CreateCurrent"}
        THEN {"range_id", "next_event_id", "current_run_id", "execution",
              "replication_state", "workflow_last_write_version", "workflow_state"}
        ELSE UNION {CASE s.stmt \in {"UpdateShard", "UpdateLease"} -> {"range_id"}
                      [] s.stmt = "UpdateCurrent" -> {"current_run_id"}
                      [] s.stmt = "UpdateCurrentForNew" ->
                            {"current_run_id", "workflow_last_write_version", "workflow_state"}
                      [] s.stmt = "UpdateExecution" -> {"next_event_id"} : s \in cond}

emptyUUID == "00000000-0000-0000-0000-000000000000"

\* A returned row: the key columns type and run_id, the set of the other
\* columns present, and their values (the zero value where the row has none).
ReturnedRow(type, runID, columns, rangeID, nextEventID, currentRunID, execution, replicationState) ==
    [type              |-> type,
     run_id            |-> runID,
     columns           |-> columns,
     range_id          |-> rangeID,
     next_event_id     |-> nextEventID,
     current_run_id    |-> currentRunID,
     execution         |-> execution,
     replication_state |-> replicationState]

\* The rows a rejected batch hands back: the existing rows that carry a
\* condition in the batch, in clustering order (type, then run_id: the shard
\* row, the rows of the runs, the current-execution row).
ReturnedRows(db, batch) ==
    IF "list" \in DOMAIN db
    THEN IF db.list # Null
         THEN <<[type |-> rowTypeTaskList, columns |-> {"range_id"},
                 range_id |-> db.list.range_id]>>
         ELSE <<>>
    ELSE
    LET cond       == {batch[i] : i \in {j \in 1..Len(batch) : IsConditional(batch[j])}}
        columns    == ReturnedColumns(batch)
        shardRows  ==
            IF db.shard # Null /\ \E s \in cond : s.stmt \in {"CreateShard", "UpdateShard", "UpdateLease"}
            THEN <<ReturnedRow(rowTypeShard, rowTypeShardRunID, columns,
                               db.shard.range_id, 0, emptyUUID, Null, Null)>>
            ELSE <<>>
        runRow(r)  ==
            IF db.runs[r] # Null /\ \E s \in cond : s.stmt = "UpdateExecution" /\ s.run_id = r
            THEN <<ReturnedRow(rowTypeExecution, r, columns,
                               0, db.runs[r].next_event_id, emptyUUID,
                               db.runs[r].execution, db.runs[r].replication_state)>>
            ELSE <<>>
        curRows    ==
            IF db.current # Null /\ \E s \in cond : s.stmt \in {"CreateCurrent", "UpdateCurrent", "UpdateCurrentForNew"}
            THEN <<ReturnedRow(rowTypeExecution, permanentRunID, columns,
                               0, 0, db.current.current_run_id,
                               db.current.execution, db.current.replication_state)>>
            ELSE <<>>
    IN  shardRows \o runRow("r1") \o runRow("r2") \o runRow("r3") \o curRows

\* A variant of MapExecuteBatchCAS that, when a condition fails, still
\* applies the statements of the batch that carry no condition.
MapExecuteBatchCASPartial(db, batch) ==
    IF \A i \in 1..Len(batch) : StatementHolds(db, batch[i])
    THEN [applied |-> TRUE,  rows |-> <<>>, db |-> ApplyBatch(db, batch)]
    ELSE [applied |-> FALSE, rows |-> ReturnedRows(db, batch),
          db |-> ApplyBatch(db, SelectSeq(batch, LAMBDA s : ~IsConditional(s)))]

\* Query.MapScanCAS of one statement with an IF clause.
MapScanCAS(db, s) ==
    IF StatementHolds(db, s)
    THEN [applied |-> TRUE,  db |-> ApplyStatement(db, s)]
    ELSE [applied |-> FALSE, db |-> db]

\* Query.Exec of one statement: the statement is carried out if it has no
\* IF clause or its IF clause holds; nothing of the result reaches the
\* caller.
Exec(db, s) ==
    IF StatementHolds(db, s) THEN ApplyStatement(db, s) ELSE db

\* session.MapExecuteBatchCAS: the batch is applied as a whole when every
\* condition in it holds, and not at all otherwise.
MapExecuteBatchCAS(db, batch) ==
    IF \A i \in 1..Len(batch) : StatementHolds(db, batch[i])
    THEN [applied |-> TRUE,  rows |-> <<>>, db |-> ApplyBatch(db, batch)]
    ELSE [applied |-> FALSE, rows |-> ReturnedRows(db, batch), db |-> db]

-----------------------------------------------------------------------------
(* Classification of a rejected batch *)

\* The loop GetFailureReasonLoop of CreateWorkflowExecution: it walks the
\* returned rows and returns at the first shard row with another range_id
\* or at the first current-execution row; when the rows run out the default
\* is ShardOwnershipLostError.
RECURSIVE CreateWorkflowExecutionFailure(_, _)
CreateWorkflowExecutionFailure(rows, request) ==
    IF rows = <<>> THEN ShardOwnershipLostError
    ELSE LET previous == Head(rows) IN
         IF previous.type = rowTypeShard
         THEN IF "range_id" \in previous.columns /\ previous.range_id # request.RangeID
              THEN ShardOwnershipLostError
              ELSE CreateWorkflowExecutionFailure(Tail(rows), request)
         ELSE IF previous.type = rowTypeExecution /\ previous.run_id = permanentRunID
         THEN IF "execution" \in previous.columns
              THEN WorkflowExecutionAlreadyStartedError(
                       previous.execution,
                       IF request.ReplicationState # Null
                       THEN previous.replication_state.last_write_version
                       ELSE EmptyVersion)
              ELSE IF previous.current_run_id # request.RunID
              THEN CurrentWorkflowConditionFailedError
              ELSE ConditionFailedError("currentRow")
         ELSE CreateWorkflowExecutionFailure(Tail(rows), request)

\* The scan of getExecutionConditionalUpdateFailure: one pass over all the
\* returned rows that sets the three flags.
RECURSIVE ScanRows(_, _, _, _, _, _)
ScanRows(rows, flags, requestRunID, requestCondition, requestRangeID, requestConditionalRunID) ==
    IF rows = <<>> THEN flags
    ELSE LET previous == Head(rows)
             next ==
                IF previous.type = rowTypeShard
                THEN IF "range_id" \in previous.columns /\ previous.range_id # requestRangeID
                     THEN [flags EXCEPT !.rangeIDUnmatch = TRUE]
                     ELSE flags
                ELSE IF previous.type = rowTypeExecution /\ previous.run_id = requestRunID
                THEN IF "next_event_id" \in previous.columns /\ previous.next_event_id # requestCondition
                     THEN [flags EXCEPT !.nextEventIDUnmatch = TRUE]
                     ELSE flags
                ELSE IF previous.type = rowTypeExecution /\ previous.run_id = permanentRunID
                THEN IF previous.current_run_id # requestConditionalRunID
                     THEN [flags EXCEPT !.runIDUnmatch = TRUE]
                     ELSE flags
                ELSE flags
         IN  ScanRows(Tail(rows), next, requestRunID, requestCondition, requestRangeID,
                      requestConditionalRunID)

\* A variant of the classifier below that decides on the first row alone.
getFailureFromFirstRow(rows, requestRunID, requestCondition, requestRangeID, requestConditionalRunID) ==
    LET flags == ScanRows(IF rows = <<>> THEN <<>> ELSE <<Head(rows)>>,
                          [rangeIDUnmatch |-> FALSE, nextEventIDUnmatch |-> FALSE,
                           runIDUnmatch |-> FALSE],
                          requestRunID, requestCondition, requestRangeID,
                          requestConditionalRunID)
    IN  IF flags.rangeIDUnmatch THEN ShardOwnershipLostError
        ELSE IF flags.runIDUnmatch THEN CurrentWorkflowConditionFailedError
        ELSE IF flags.nextEventIDUnmatch THEN ConditionFailedError("nextEventID")
        ELSE ConditionFailedError("columns")

getExecutionConditionalUpdateFailure(rows, requestRunID, requestCondition, requestRangeID, requestConditionalRunID) ==
    LET flags == ScanRows(rows,
                          [rangeIDUnmatch |-> FALSE, nextEventIDUnmatch |-> FALSE,
                           runIDUnmatch |-> FALSE],
                          requestRunID, requestCondition, requestRangeID,
                          requestConditionalRunID)
    IN  IF flags.rangeIDUnmatch THEN ShardOwnershipLostError
        ELSE IF flags.runIDUnmatch THEN CurrentWorkflowConditionFailedError
        ELSE IF flags.nextEventIDUnmatch THEN ConditionFailedError("nextEventID")
        ELSE ConditionFailedError("columns")

-----------------------------------------------------------------------------
(* Building the batches *)

RECURSIVE TaskInserts(_, _, _, _)
TaskInserts(batch, kind, tasks, runID) ==
    IF tasks = {} THEN batch
    ELSE LET t   == CHOOSE x \in tasks : \A y \in tasks : x.TaskID <= y.TaskID
             row == [task_id |-> t.TaskID, visibility_ts |-> t.VisibilityTimestamp,
                     run_id |-> runID]
         IN  TaskInserts(Append(batch, [stmt |-> kind, task |-> row]), kind,
                         tasks \ {t}, runID)

\* Transfer and replication task rows all carry defaultVisibilityTimestamp.
defaultVisibilityTimestamp == 0

AtDefaultVisibility(tasks) ==
    {[t EXCEPT !.VisibilityTimestamp = defaultVisibilityTimestamp] : t \in tasks}

createTransferTasks(batch, transferTasks, runID) ==
    TaskInserts(batch, "CreateTransferTask", AtDefaultVisibility(transferTasks), runID)

createReplicationTasks(batch, replicationTasks, runID) ==
    TaskInserts(batch, "CreateReplicationTask", AtDefaultVisibility(replicationTasks), runID)

createTimerTasks(batch, timerTasks, runID) ==
    TaskInserts(batch, "CreateTimerTask", timerTasks, runID)

ValidateCreateWorkflowStateCloseStatus(state, closeStatus) ==
    ~(state = WorkflowStateCompleted \/ closeStatus # WorkflowCloseStatusNone)

ValidateUpdateWorkflowStateCloseStatus(state, closeStatus) ==
    IF closeStatus = WorkflowCloseStatusNone
    THEN state # WorkflowStateCompleted
    ELSE state = WorkflowStateCompleted

\* A variant of EffectiveCreateMode that treats the Zombie mode as BrandNew.
EffectiveCreateModeZombieAsBrandNew(request) ==
    IF request.CreateWorkflowMode = CreateWorkflowModeZombie
    THEN CreateWorkflowModeBrandNew
    ELSE request.CreateWorkflowMode

\* The mode CreateWorkflowExecutionWithinBatch works with: without a
\* ReplicationState, WorkflowIDReuse is turned into ContinueAsNew.
EffectiveCreateMode(request) ==
    IF request.ReplicationState = Null
       /\ request.CreateWorkflowMode = CreateWorkflowModeWorkflowIDReuse
    THEN CreateWorkflowModeContinueAsNew
    ELSE request.CreateWorkflowMode

\* The statement on the current-execution row, by create mode.
CreateCurrentStatements(request) ==
    LET startVersion     == IF request.ReplicationState # Null
                            THEN request.ReplicationState.StartVersion ELSE EmptyVersion
        lastWriteVersion == IF request.ReplicationState # Null
                            THEN request.ReplicationState.LastWriteVersion ELSE EmptyVersion
        row  == CurrentRow(request.RunID, request.RequestID, request.State,
                           request.CloseStatus, startVersion, lastWriteVersion)
        mode == EffectiveCreateMode(request)
    IN  CASE mode = CreateWorkflowModeContinueAsNew ->
                <<templateUpdateCurrentWorkflowExecutionQuery(row, request.PreviousRunID)>>
          [] mode = CreateWorkflowModeWorkflowIDReuse ->
                <<templateUpdateCurrentWorkflowExecutionForNewQuery(
                      row, request.PreviousRunID, request.PreviousLastWriteVersion,
                      WorkflowStateCompleted)>>
          [] mode = CreateWorkflowModeBrandNew ->
                <<templateCreateCurrentWorkflowExecutionQuery(row)>>
          [] mode = CreateWorkflowModeZombie -> <<>>

\* The insert of the run's own row: with the replication state, else with
\* the version histories, else with neither.
CreateExecutionStatement(request) ==
    LET execution == ExecutionUDT(request.RunID, request.RequestID, request.State,
                                  request.CloseStatus, request.NextEventID)
    IN  IF request.ReplicationState # Null
        THEN templateCreateWorkflowExecutionWithReplicationQuery(
                 request.RunID, execution,
                 [start_version      |-> request.ReplicationState.StartVersion,
                  last_write_version |-> request.ReplicationState.LastWriteVersion],
                 request.NextEventID)
        ELSE IF request.VersionHistories # Null
        THEN templateCreateWorkflowExecutionWithVersionHistoriesQuery(
                 request.RunID, execution, request.NextEventID, request.VersionHistories)
        ELSE templateCreateWorkflowExecutionQuery(request.RunID, execution, request.NextEventID)

\* CreateWorkflowExecutionWithinBatch: the error it returns, if any, and
\* the batch with its statements added.
CreateWorkflowExecutionWithinBatch(request, batch) ==
    IF ~ValidateCreateWorkflowStateCloseStatus(request.State, request.CloseStatus)
    THEN [err |-> InternalServiceError, batch |-> batch]
    ELSE IF EffectiveCreateMode(request) = CreateWorkflowModeZombie
            /\ (request.State # WorkflowStateZombie
                \/ request.CloseStatus # WorkflowCloseStatusNone)
    THEN [err |-> InternalServiceError, batch |-> batch]
    ELSE [err   |-> NoError,
          batch |-> Append(batch \o CreateCurrentStatements(request),
                           CreateExecutionStatement(request))]

\* The whole batch of CreateWorkflowExecution.
CreateWorkflowExecutionBatch(request) ==
    LET within == CreateWorkflowExecutionWithinBatch(request, <<>>)
        b1     == createTransferTasks(within.batch, request.TransferTasks, request.RunID)
        b2     == createReplicationTasks(b1, request.ReplicationTasks, request.RunID)
        b3     == createTimerTasks(b2, request.TimerTasks, request.RunID)
    IN  [err   |-> within.err,
         batch |-> Append(b3, templateUpdateLeaseQuery(request.RangeID))]

-----------------------------------------------------------------------------
(* Operations *)

\* What a finished call leaves behind: the table, and in `last` the call,
\* its result and the table and last applied call it started from.
Finish(op, request, res, db) ==
    /\ executions' = db
    /\ last' = [op |-> op, request |-> request, res |-> res,
                pre |-> executions, preApplied |-> applied]
    /\ applied' = IF res = NoError THEN [op |-> op, request |-> request] ELSE applied
    /\ calls' = calls + 1
    /\ UNCHANGED <<tasksTable, granted>>

Idle == last = Null /\ calls < MaxCalls

\* The caller takes the result; the store is ready for the next call.
Return ==
    /\ last # Null
    /\ last' = Null
    /\ UNCHANGED <<executions, tasksTable, pending, applied, granted, calls>>

\* A variant of CreateShard that inserts without IF NOT EXISTS.
CreateShardOverwriting(request) ==
    /\ Idle
    /\ Finish("CreateShard", request, NoError,
              [executions EXCEPT !.shard = ShardRow(request.ShardInfo)])
    /\ UNCHANGED pending

CreateShard(request) ==
    /\ Idle
    /\ LET r == MapExecuteBatchCAS(executions, <<templateCreateShardQuery(request.ShardInfo)>>)
       IN  Finish("CreateShard", request,
                  IF r.applied THEN NoError ELSE ShardAlreadyExistError, r.db)
    /\ UNCHANGED pending

\* A variant of UpdateShard that updates without the IF clause.
UpdateShardUnconditional(request) ==
    /\ Idle
    /\ Finish("UpdateShard", request, NoError,
              [executions EXCEPT !.shard = ShardRow(request.ShardInfo)])
    /\ UNCHANGED pending

UpdateShard(request) ==
    /\ Idle
    /\ LET r == MapExecuteBatchCAS(executions,
                    <<templateUpdateShardQuery(request.ShardInfo, request.PreviousRangeID)>>)
       IN  Finish("UpdateShard", request,
                  IF r.applied THEN NoError ELSE ShardOwnershipLostError, r.db)
    /\ UNCHANGED pending

\* GetCurrentExecution followed by the comparison of assertNotCurrentExecution:
\* no current-execution row, or one that names another run, passes.
assertNotCurrentExecution(db, runID) ==
    db.current = Null \/ db.current.current_run_id # runID

\* The part of CreateWorkflowExecution from CreateWorkflowExecutionWithinBatch
\* on: build the batch, execute it, classify a rejection.
CreateWorkflowExecutionOutcome(db, request) ==
    LET b == CreateWorkflowExecutionBatch(request)
        r == MapExecuteBatchCAS(db, b.batch)
    IN  IF b.err # NoError THEN [res |-> b.err, db |-> db]
        ELSE IF r.applied THEN [res |-> NoError, db |-> r.db]
        ELSE [res |-> CreateWorkflowExecutionFailure(r.rows, request), db |-> r.db]

\* CreateWorkflowExecution in a mode other than Zombie: one batch.
CreateWorkflowExecution(request) ==
    /\ Idle
    /\ request.CreateWorkflowMode # CreateWorkflowModeZombie
    /\ LET out == CreateWorkflowExecutionOutcome(executions, request)
       IN  Finish("CreateWorkflowExecution", request, out.res, out.db)
    /\ UNCHANGED pending

\* CreateWorkflowExecution in Zombie mode, first step: the read of the
\* current-execution row.  A failed assertion ends the call; otherwise the
\* call goes on to its batch, and other calls may run in between.
CreateZombieAssert(request) ==
    /\ Idle
    /\ pending = Null
    /\ request.CreateWorkflowMode = CreateWorkflowModeZombie
    /\ IF assertNotCurrentExecution(executions, request.RunID)
       THEN /\ pending' = [op |-> "CreateWorkflowExecution", request |-> request]
            /\ calls' = calls + 1
            /\ UNCHANGED <<executions, tasksTable, applied, granted, last>>
       ELSE /\ Finish("CreateWorkflowExecution", request, InternalServiceError, executions)
            /\ UNCHANGED pending

\* CreateWorkflowExecution in Zombie mode, second step: the batch.
CreateZombieBatch ==
    /\ last = Null
    /\ pending # Null
    /\ pending.op = "CreateWorkflowExecution"
    /\ LET out == CreateWorkflowExecutionOutcome(executions, pending.request)
       IN  /\ executions' = out.db
           /\ last' = [op |-> "CreateWorkflowExecution", request |-> pending.request,
                       res |-> out.res, pre |-> executions, preApplied |-> applied]
           /\ applied' = IF out.res = NoError
                         THEN [op |-> "CreateWorkflowExecution", request |-> pending.request]
                         ELSE applied
    /\ pending' = Null
    /\ UNCHANGED <<calls, tasksTable, granted>>

\* updateMutableState: the update of a run's row, with the replication
\* state, else with the version histories, else with neither; conditional on
\* next_event_id when useCondition is set.
updateMutableState(batch, executionInfo, replicationState, versionHistories, useCondition, condition) ==
    LET execution == ExecutionUDT(executionInfo.RunID, executionInfo.CreateRequestID,
                                  executionInfo.State, executionInfo.CloseStatus,
                                  executionInfo.NextEventID)
    IN  IF replicationState # Null
        THEN batchQueryHelper(batch,
                 templateUpdateWorkflowExecutionWithReplicationQuery(
                     executionInfo.RunID, execution,
                     [start_version      |-> replicationState.StartVersion,
                      last_write_version |-> replicationState.LastWriteVersion],
                     executionInfo.NextEventID),
                 useCondition, condition)
        ELSE IF versionHistories # Null
        THEN batchQueryHelper(batch,
                 templateUpdateWorkflowExecutionWithVersionHistoriesQuery(
                     executionInfo.RunID, execution, executionInfo.NextEventID,
                     versionHistories),
                 useCondition, condition)
        ELSE batchQueryHelper(batch,
                 templateUpdateWorkflowExecutionQuery(
                     executionInfo.RunID, execution, executionInfo.NextEventID),
                 useCondition, condition)

\* applyWorkflowMutationBatch: the conditional update of the run and the
\* inserts of the tasks derived from the mutation.
applyWorkflowMutationBatch(batch, updateWorkflow) ==
    IF ~ValidateUpdateWorkflowStateCloseStatus(updateWorkflow.ExecutionInfo.State,
                                               updateWorkflow.ExecutionInfo.CloseStatus)
    THEN [err |-> InternalServiceError, batch |-> batch]
    ELSE LET info == updateWorkflow.ExecutionInfo
             b0   == updateMutableState(batch, info, updateWorkflow.ReplicationState,
                                        updateWorkflow.VersionHistories, TRUE,
                                        updateWorkflow.Condition)
             b1   == createTransferTasks(b0, updateWorkflow.TransferTasks, info.RunID)
             b2   == createReplicationTasks(b1, updateWorkflow.ReplicationTasks, info.RunID)
             b3   == createTimerTasks(b2, updateWorkflow.TimerTasks, info.RunID)
         IN  [err |-> NoError, batch |-> b3]

\* The statements UpdateWorkflowExecution adds after the mutation: the new
\* run of a continue-as-new with its transfer and timer tasks, or the
\* conditional update of the current-execution row; nothing for a Zombie.
UpdateWorkflowExecutionCurrent(batch, request) ==
    LET updateWorkflow == request.UpdateWorkflowMutation
        executionInfo  == updateWorkflow.ExecutionInfo
    IN  IF request.ContinueAsNew # Null
        THEN LET startReq == request.ContinueAsNew
                 within   == CreateWorkflowExecutionWithinBatch(startReq, batch)
                 b1       == createTransferTasks(within.batch, startReq.TransferTasks, startReq.RunID)
                 b2       == createTimerTasks(b1, startReq.TimerTasks, startReq.RunID)
             IN  [err |-> within.err, batch |-> b2]
        ELSE IF executionInfo.State = WorkflowStateZombie
        THEN [err |-> NoError, batch |-> batch]
        ELSE IF executionInfo.State \in {WorkflowStateCreated, WorkflowStateRunning,
                                         WorkflowStateCompleted}
        THEN LET startVersion     == IF updateWorkflow.ReplicationState # Null
                                     THEN updateWorkflow.ReplicationState.StartVersion
                                     ELSE EmptyVersion
                 lastWriteVersion == IF updateWorkflow.ReplicationState # Null
                                     THEN updateWorkflow.ReplicationState.LastWriteVersion
                                     ELSE EmptyVersion
             IN  [err   |-> NoError,
                  batch |-> Append(batch,
                      templateUpdateCurrentWorkflowExecutionQuery(
                          CurrentRow(executionInfo.RunID, executionInfo.CreateRequestID,
                                     executionInfo.State, executionInfo.CloseStatus,
                                     startVersion, lastWriteVersion),
                          executionInfo.RunID))]
        ELSE [err |-> InternalServiceError, batch |-> batch]

\* The whole batch of UpdateWorkflowExecution.
UpdateWorkflowExecutionBatch(request) ==
    LET m == applyWorkflowMutationBatch(<<>>, request.UpdateWorkflowMutation)
        c == UpdateWorkflowExecutionCurrent(m.batch, request)
    IN  IF m.err # NoError THEN [err |-> m.err, batch |-> <<>>]
        ELSE IF c.err # NoError THEN [err |-> c.err, batch |-> <<>>]
        ELSE [err |-> NoError, batch |-> Append(c.batch, templateUpdateLeaseQuery(request.RangeID))]

\* UpdateWorkflowExecution from the execution of its batch on.
UpdateWorkflowExecutionOutcome(db, request) ==
    LET b    == UpdateWorkflowExecutionBatch(request)
        r    == MapExecuteBatchCAS(db, b.batch)
        info == request.UpdateWorkflowMutation.ExecutionInfo
    IN  IF b.err # NoError THEN [res |-> b.err, db |-> db]
        ELSE IF r.applied THEN [res |-> NoError, db |-> r.db]
        ELSE [res |-> getExecutionConditionalUpdateFailure(
                          r.rows, info.RunID, request.UpdateWorkflowMutation.Condition,
                          request.RangeID, info.RunID),
              db  |-> r.db]

\* Whether UpdateWorkflowExecution reads the current-execution row (the
\* assertion for a Zombie update) before it executes its batch.
UpdateAssertsNotCurrent(request) ==
    /\ request.ContinueAsNew = Null
    /\ request.UpdateWorkflowMutation.ExecutionInfo.State = WorkflowStateZombie
    /\ ValidateUpdateWorkflowStateCloseStatus(
           request.UpdateWorkflowMutation.ExecutionInfo.State,
           request.UpdateWorkflowMutation.ExecutionInfo.CloseStatus)

\* UpdateWorkflowExecution that needs no read before its batch.
UpdateWorkflowExecution(request) ==
    /\ Idle
    /\ ~UpdateAssertsNotCurrent(request)
    /\ LET out == UpdateWorkflowExecutionOutcome(executions, request)
       IN  Finish("UpdateWorkflowExecution", request, out.res, out.db)
    /\ UNCHANGED pending

\* UpdateWorkflowExecution of a Zombie run, first step: the read of the
\* current-execution row.
UpdateZombieAssert(request) ==
    /\ Idle
    /\ pending = Null
    /\ UpdateAssertsNotCurrent(request)
    /\ IF assertNotCurrentExecution(executions,
                                    request.UpdateWorkflowMutation.ExecutionInfo.RunID)
       THEN /\ pending' = [op |-> "UpdateWorkflowExecution", request |-> request]
            /\ calls' = calls + 1
            /\ UNCHANGED <<executions, tasksTable, applied, granted, last>>
       ELSE /\ Finish("UpdateWorkflowExecution", request, InternalServiceError, executions)
            /\ UNCHANGED pending

\* UpdateWorkflowExecution of a Zombie run, second step: the batch.
UpdateZombieBatch ==
    /\ last = Null
    /\ pending # Null
    /\ pending.op = "UpdateWorkflowExecution"
    /\ LET out == UpdateWorkflowExecutionOutcome(executions, pending.request)
       IN  /\ executions' = out.db
           /\ last' = [op |-> "UpdateWorkflowExecution", request |-> pending.request,
                       res |-> out.res, pre |-> executions, preApplied |-> applied]
           /\ applied' = IF out.res = NoError
                         THEN [op |-> "UpdateWorkflowExecution", request |-> pending.request]
                         ELSE applied
    /\ pending' = Null
    /\ UNCHANGED <<calls, tasksTable, granted>>

\* The whole batch of ResetWorkflowExecution.
ResetWorkflowExecutionBatch(request) ==
    LET curr    == request.CurrExecutionInfo
        currRS  == request.CurrReplicationState
        snap    == request.NewWorkflowSnapshot
        insert  == snap.ExecutionInfo
        startVersion     == IF snap.ReplicationState # Null
                            THEN snap.ReplicationState.StartVersion ELSE EmptyVersion
        lastWriteVersion == IF snap.ReplicationState # Null
                            THEN snap.ReplicationState.LastWriteVersion ELSE EmptyVersion
        row == CurrentRow(insert.RunID, insert.CreateRequestID, insert.State,
                          insert.CloseStatus, startVersion, lastWriteVersion)
        b0  == IF currRS = Null
               THEN <<templateUpdateCurrentWorkflowExecutionQuery(row, curr.RunID)>>
               ELSE <<templateUpdateCurrentWorkflowExecutionForNewQuery(
                          row, curr.RunID, request.PrevRunVersion, request.PrevRunState)>>
        b1  == IF request.BaseRunID # curr.RunID
               THEN Append(b0, templateCheckWorkflowExecutionQuery(
                                   request.BaseRunID, request.BaseRunNextEventID))
               ELSE b0
        b2  == IF request.UpdateCurr
               THEN createTransferTasks(
                        createTimerTasks(
                            updateMutableState(b1, curr, currRS, request.CurrVersionHistories,
                                               TRUE, request.Condition),
                            request.CurrTimerTasks, curr.RunID),
                        request.CurrTransferTasks, curr.RunID)
               ELSE Append(b1, templateCheckWorkflowExecutionQuery(curr.RunID, request.Condition))
        b3  == createReplicationTasks(b2, snap.ReplicationTasks, insert.RunID)
        b4  == createReplicationTasks(b3, request.CurrReplicationTasks, curr.RunID)
        b5  == updateMutableState(b4, insert, snap.ReplicationState, snap.VersionHistories,
                                  FALSE, 0)
        b6  == createTimerTasks(b5, snap.TimerTasks, insert.RunID)
        b7  == createTransferTasks(b6, snap.TransferTasks, insert.RunID)
    IN  Append(b7, templateUpdateLeaseQuery(request.RangeID))

ResetWorkflowExecution(request) ==
    /\ Idle
    /\ LET r == MapExecuteBatchCAS(executions, ResetWorkflowExecutionBatch(request))
       IN  Finish("ResetWorkflowExecution", request,
                  IF r.applied THEN NoError
                  ELSE getExecutionConditionalUpdateFailure(
                           r.rows, request.CurrExecutionInfo.RunID, request.Condition,
                           request.RangeID, request.CurrExecutionInfo.RunID),
                  r.db)
    /\ UNCHANGED pending

\* applyWorkflowSnapshotBatch: the snapshot's run is written as a whole,
\* with no condition on it, together with the tasks derived from it.
applyWorkflowSnapshotBatch(batch, resetWorkflow) ==
    LET info == resetWorkflow.ExecutionInfo
        b0   == updateMutableState(batch, info, resetWorkflow.ReplicationState,
                                   resetWorkflow.VersionHistories, FALSE, 0)
        b1   == createTransferTasks(b0, resetWorkflow.TransferTasks, info.RunID)
        b2   == createReplicationTasks(b1, resetWorkflow.ReplicationTasks, info.RunID)
        b3   == createTimerTasks(b2, resetWorkflow.TimerTasks, info.RunID)
    IN  b3

\* A variant of the batch below without the statement on the
\* current-execution row.
ResetMutableStateBatchWithoutCurrentRow(request) ==
    Append(applyWorkflowSnapshotBatch(<<>>, request.ResetWorkflowSnapshot),
           templateUpdateLeaseQuery(request.RangeID))

\* The whole batch of ResetMutableState.
ResetMutableStateBatch(request) ==
    LET resetWorkflow == request.ResetWorkflowSnapshot
        info == resetWorkflow.ExecutionInfo
        rs   == resetWorkflow.ReplicationState
        b0   == <<templateUpdateCurrentWorkflowExecutionForNewQuery(
                      CurrentRow(info.RunID, info.CreateRequestID, info.State,
                                 info.CloseStatus, rs.StartVersion, rs.LastWriteVersion),
                      request.PrevRunID, request.PrevLastWriteVersion, request.PrevState)>>
        b1   == applyWorkflowSnapshotBatch(b0, resetWorkflow)
    IN  Append(b1, templateUpdateLeaseQuery(request.RangeID))

ResetMutableState(request) ==
    /\ Idle
    /\ LET r == MapExecuteBatchCAS(executions, ResetMutableStateBatch(request))
       IN  Finish("ResetMutableState", request,
                  IF r.applied THEN NoError
                  ELSE getExecutionConditionalUpdateFailure(
                           r.rows, request.ResetWorkflowSnapshot.ExecutionInfo.RunID,
                           request.ResetWorkflowSnapshot.Condition, request.RangeID,
                           request.PrevRunID),
                  r.db)
    /\ UNCHANGED pending

\* What a finished delete or completion leaves behind.  These requests
\* carry no range_id; rangeID is the range_id the caller holds, which the
\* operation never reads.
FinishExec(op, request, rangeID, db) ==
    /\ executions' = db
    /\ last' = [op |-> op, request |-> request, callerRangeID |-> rangeID, res |-> NoError,
                pre |-> executions, preApplied |-> applied]
    /\ applied' = [op |-> op, request |-> request]
    /\ calls' = calls + 1
    /\ UNCHANGED <<pending, tasksTable, granted>>

DeleteWorkflowExecution(request, rangeID) ==
    /\ Idle
    /\ FinishExec("DeleteWorkflowExecution", request, rangeID,
                  Exec(executions, templateDeleteWorkflowExecutionMutableStateQuery(request.RunID)))

\* A variant of DeleteCurrentWorkflowExecution that deletes the
\* current-execution row whatever run it names.
DeleteCurrentWorkflowExecutionOfAnyRun(request, rangeID) ==
    /\ Idle
    /\ FinishExec("DeleteCurrentWorkflowExecution", request, rangeID,
                  ApplyStatement(executions,
                      templateDeleteWorkflowExecutionCurrentRowQuery(request.RunID)))

DeleteCurrentWorkflowExecution(request, rangeID) ==
    /\ Idle
    /\ FinishExec("DeleteCurrentWorkflowExecution", request, rangeID,
                  Exec(executions, templateDeleteWorkflowExecutionCurrentRowQuery(request.RunID)))

CompleteTransferTask(request, rangeID) ==
    /\ Idle
    /\ FinishExec("CompleteTransferTask", request, rangeID,
                  Exec(executions, templateCompleteTransferTaskQuery(
                                       "transfer", defaultVisibilityTimestamp, request.TaskID)))

RangeCompleteTransferTask(request, rangeID) ==
    /\ Idle
    /\ FinishExec("RangeCompleteTransferTask", request, rangeID,
                  Exec(executions, templateRangeCompleteTransferTaskQuery(
                                       defaultVisibilityTimestamp,
                                       request.ExclusiveBeginTaskID, request.InclusiveEndTaskID)))

CompleteReplicationTask(request, rangeID) ==
    /\ Idle
    /\ FinishExec("CompleteReplicationTask", request, rangeID,
                  Exec(executions, templateCompleteTransferTaskQuery(
                                       "replication", defaultVisibilityTimestamp, request.TaskID)))

\* p.UnixNanoToDBTimestamp: the timestamp of a request as a value of the
\* column visibility_ts.  Time is counted in the unit of that column, in
\* the requests as in the rows.
UnixNanoToDBTimestamp(timestamp) == timestamp

CompleteTimerTask(request, rangeID) ==
    /\ Idle
    /\ FinishExec("CompleteTimerTask", request, rangeID,
                  Exec(executions, templateCompleteTimerTaskQuery(
                                       UnixNanoToDBTimestamp(request.VisibilityTimestamp),
                                       request.TaskID)))

\* A variant of RangeCompleteTimerTask that takes the tasks at the end
\* timestamp too.
RangeCompleteTimerTaskInclusiveEnd(request, rangeID) ==
    /\ Idle
    /\ FinishExec("RangeCompleteTimerTask", request, rangeID,
                  Exec(executions, templateRangeCompleteTimerTaskQuery(
                                       UnixNanoToDBTimestamp(request.InclusiveBeginTimestamp),
                                       UnixNanoToDBTimestamp(request.ExclusiveEndTimestamp) + 1)))

RangeCompleteTimerTask(request, rangeID) ==
    /\ Idle
    /\ FinishExec("RangeCompleteTimerTask", request, rangeID,
                  Exec(executions, templateRangeCompleteTimerTaskQuery(
                                       UnixNanoToDBTimestamp(request.InclusiveBeginTimestamp),
                                       UnixNanoToDBTimestamp(request.ExclusiveEndTimestamp))))

\* The rows a SELECT on the task rows returns, in the order of the
\* clustering columns visibility_ts and task_id.
RECURSIVE RowsInOrder(_)
RowsInOrder(selected) ==
    IF selected = {} THEN <<>>
    ELSE LET first == CHOOSE x \in selected : \A y \in selected :
                          \/ x.visibility_ts < y.visibility_ts
                          \/ x.visibility_ts = y.visibility_ts /\ x.task_id <= y.task_id
         IN  <<first>> \o RowsInOrder(selected \ {first})

\* visibility_ts = ? and task_id > ? and task_id <= ?
templateGetTransferTasksQuery(db, visibilityTimestamp, readLevel, maxReadLevel) ==
    RowsInOrder({t \in db.transfer : /\ t.visibility_ts = visibilityTimestamp
                                     /\ t.task_id > readLevel
                                     /\ t.task_id <= maxReadLevel})

\* A variant of the statement below that reads the rows of the transfer tasks.
templateGetReplicationTasksFromTransfer(db, visibilityTimestamp, readLevel, maxReadLevel) ==
    templateGetTransferTasksQuery(db, visibilityTimestamp, readLevel, maxReadLevel)

\* visibility_ts = ? and task_id > ? and task_id <= ?
templateGetReplicationTasksQuery(db, visibilityTimestamp, readLevel, maxReadLevel) ==
    RowsInOrder({t \in db.replication : /\ t.visibility_ts = visibilityTimestamp
                                        /\ t.task_id > readLevel
                                        /\ t.task_id <= maxReadLevel})

\* visibility_ts >= ? and visibility_ts < ?
templateGetTimerTasksQuery(db, minTimestamp, maxTimestamp) ==
    RowsInOrder({t \in db.timer : /\ t.visibility_ts >= minTimestamp
                                  /\ t.visibility_ts < maxTimestamp})

\* The tasks of a response, one for every row the iterator yields.
TaskInfos(rows) ==
    [i \in 1..Len(rows) |->
        [TaskID |-> rows[i].task_id, VisibilityTimestamp |-> rows[i].visibility_ts]]

\* What a finished read of a queue leaves behind: the table as it was, and
\* the response in `last`.
FinishRead(op, request, response) ==
    /\ last' = [op |-> op, request |-> request, callerRangeID |-> Null, res |-> NoError,
                response |-> response, pre |-> executions, preApplied |-> applied]
    /\ calls' = calls + 1
    /\ UNCHANGED <<executions, tasksTable, pending, applied, granted>>

\* The reads of the queues, for requests without a NextPageToken and with
\* a BatchSize that the rows of the range do not exceed: the iterator
\* yields every row of the range.
GetTransferTasks(request) ==
    /\ Idle
    /\ FinishRead("GetTransferTasks", request,
                  [Tasks |-> TaskInfos(templateGetTransferTasksQuery(
                                           executions, defaultVisibilityTimestamp,
                                           request.ReadLevel, request.MaxReadLevel))])

GetReplicationTasks(request) ==
    /\ Idle
    /\ FinishRead("GetReplicationTasks", request,
                  [Tasks |-> TaskInfos(templateGetReplicationTasksQuery(
                                           executions, defaultVisibilityTimestamp,
                                           request.ReadLevel, request.MaxReadLevel))])

GetTimerIndexTasks(request) ==
    /\ Idle
    /\ FinishRead("GetTimerIndexTasks", request,
                  [Timers |-> TaskInfos(templateGetTimerTasksQuery(
                                            executions,
                                            UnixNanoToDBTimestamp(request.MinTimestamp),
                                            UnixNanoToDBTimestamp(request.MaxTimestamp)))])

-----------------------------------------------------------------------------
(* Operations on the tasks table *)

TaskListKindNormal == "Normal"

TaskListKindSticky == "Sticky"

\* The range_id of the row LeaseTaskList inserts for a new task list.
initialRangeID == 1

\* What a finished call on the tasks table leaves behind: the table, and
\* in `last` the call, its error and response and the table it started
\* from.  rangeID is the range_id the caller holds, for the requests that
\* carry none.
FinishTaskList(op, request, rangeID, res, response, db) ==
    /\ tasksTable' = db
    /\ last' = [op |-> op, request |-> request, callerRangeID |-> rangeID, res |-> res,
                response |-> response, pre |-> tasksTable, preApplied |-> applied]
    /\ applied' = IF res = NoError THEN [op |-> op, request |-> request] ELSE applied
    /\ UNCHANGED <<executions, granted>>

\* A variant of the read below that does not take the ack_level of the row.
LeaseTaskListScanWithoutAckLevel(request, db) ==
    [request      |-> request,
     found        |-> db.list # Null,
     rangeID      |-> IF db.list # Null THEN db.list.range_id ELSE 0,
     ackLevel     |-> 0,
     taskListKind |-> IF db.list # Null THEN db.list.task_list.kind
                      ELSE request.TaskListKind]

\* What LeaseTaskList keeps of its read of the row of the task list: the
\* zero values when gocql reports ErrNotFound.
LeaseTaskListScan(request, db) ==
    [request      |-> request,
     found        |-> db.list # Null,
     rangeID      |-> IF db.list # Null THEN db.list.range_id ELSE 0,
     ackLevel     |-> IF db.list # Null THEN db.list.task_list.ack_level ELSE 0,
     taskListKind |-> IF db.list # Null THEN db.list.task_list.kind
                      ELSE request.TaskListKind]

\* What a finished LeaseTaskList leaves behind: as FinishTaskList, and the
\* read of the call in `last` and, when it was applied, in `applied`.
FinishLeaseTaskList(read, res, response, db) ==
    /\ tasksTable' = db
    /\ last' = [op |-> "LeaseTaskList", request |-> read.request,
                callerRangeID |-> read.request.RangeID, res |-> res,
                response |-> response, read |-> read,
                pre |-> tasksTable, preApplied |-> applied, preGranted |-> granted]
    /\ applied' = IF res = NoError
                  THEN [op |-> "LeaseTaskList", request |-> read.request,
                        read |-> read, response |-> response]
                  ELSE applied
    /\ granted' = IF res = NoError THEN granted \cup {response.RangeID} ELSE granted
    /\ UNCHANGED executions

\* LeaseTaskList, first step: the read of the row of the task list.  A
\* request without a task list name, or a renewal with another range_id
\* than the one read, ends the call; otherwise the call goes on to its
\* write with what it has read, and other calls, other LeaseTaskList calls
\* included, may run in between.
LeaseTaskListRead(request) ==
    /\ Idle
    /\ IF pending = Null THEN TRUE ELSE pending.op = "LeaseTaskList"
    /\ calls' = calls + 1
    /\ LET read == LeaseTaskListScan(request, tasksTable)
       IN  IF request.TaskList = ""
           THEN /\ FinishTaskList("LeaseTaskList", request, request.RangeID,
                                  InternalServiceError, Null, tasksTable)
                /\ UNCHANGED pending
           ELSE IF read.found /\ request.RangeID > 0 /\ request.RangeID # read.rangeID
           THEN /\ FinishLeaseTaskList(read,
                                       ConditionFailedError("leaseTaskList:renew failed"),
                                       Null, tasksTable)
                /\ UNCHANGED pending
           ELSE /\ pending' = [op    |-> "LeaseTaskList",
                               reads |-> IF pending = Null THEN <<read>>
                                         ELSE Append(pending.reads, read)]
                /\ UNCHANGED <<executions, tasksTable, applied, granted, last>>

\* LeaseTaskList, second step, of the i-th of the calls that have read:
\* the insert of the row when none was read, else the update to the next
\* range_id if the range_id is still the one read.
LeaseTaskListWrite(i) ==
    /\ last = Null
    /\ pending # Null
    /\ pending.op = "LeaseTaskList"
    /\ i \in 1..Len(pending.reads)
    /\ LET read    == pending.reads[i]
           request == read.request
           others  == [j \in 1..(Len(pending.reads) - 1) |->
                          IF j < i THEN pending.reads[j] ELSE pending.reads[j + 1]]
           query   == IF ~read.found
                      THEN templateInsertTaskListQuery(initialRangeID, 0, request.TaskListKind)
                      ELSE templateUpdateTaskListQuery(read.rangeID + 1, read.ackLevel,
                                                       read.taskListKind, read.rangeID)
           r       == MapScanCAS(tasksTable, query)
       IN  /\ IF r.applied
              THEN FinishLeaseTaskList(read, NoError,
                                       [RangeID  |-> read.rangeID + 1,
                                        AckLevel |-> read.ackLevel,
                                        Kind     |-> request.TaskListKind],
                                       r.db)
              ELSE FinishLeaseTaskList(read, ConditionFailedError("leaseTaskList"),
                                       Null, r.db)
           /\ pending' = IF others = <<>> THEN Null
                         ELSE [op |-> "LeaseTaskList", reads |-> others]
    /\ UNCHANGED calls

\* The end of the TTL of a row written USING TTL: of the row of the task
\* list, or of a task.
ExpireRow ==
    /\ last = Null
    /\ \/ /\ tasksTable.list # Null
          /\ tasksTable.list.expires
          /\ tasksTable' = [tasksTable EXCEPT !.list = Null]
       \/ \E t \in tasksTable.rows :
              /\ t.expires
              /\ tasksTable' = [tasksTable EXCEPT !.rows = @ \ {t}]
    /\ UNCHANGED <<executions, pending, applied, granted, last, calls>>

\* A variant of UpdateTaskList that takes the branch of the sticky task
\* lists for every kind.
UpdateTaskListAlwaysWithTTL(request) ==
    /\ Idle
    /\ calls' = calls + 1
    /\ FinishTaskList("UpdateTaskList", request, request.TaskListInfo.RangeID, NoError, Null,
                      Exec(tasksTable,
                           templateUpdateTaskListQueryWithTTL(
                               request.TaskListInfo.RangeID, request.TaskListInfo.AckLevel,
                               request.TaskListInfo.Kind)))
    /\ UNCHANGED pending

\* UpdateTaskList: for a sticky task list an insert with a TTL and without
\* an IF clause, otherwise the update IF range_id = the RangeID of the
\* request.
UpdateTaskList(request) ==
    /\ Idle
    /\ calls' = calls + 1
    /\ LET tli == request.TaskListInfo
       IN  IF tli.Kind = TaskListKindSticky
           THEN FinishTaskList("UpdateTaskList", request, tli.RangeID, NoError, Null,
                               Exec(tasksTable,
                                    templateUpdateTaskListQueryWithTTL(
                                        tli.RangeID, tli.AckLevel, tli.Kind)))
           ELSE LET r == MapScanCAS(tasksTable,
                                    templateUpdateTaskListQuery(
                                        tli.RangeID, tli.AckLevel, tli.Kind, tli.RangeID))
                IN  FinishTaskList("UpdateTaskList", request, tli.RangeID,
                                   IF r.applied THEN NoError
                                   ELSE ConditionFailedError("Failed to update task list"),
                                   Null, r.db)
    /\ UNCHANGED pending

DeleteTaskList(request) ==
    /\ Idle
    /\ calls' = calls + 1
    /\ LET r == MapScanCAS(tasksTable, templateDeleteTaskListQuery(request.RangeID))
       IN  FinishTaskList("DeleteTaskList", request, request.RangeID,
                          IF r.applied THEN NoError
                          ELSE ConditionFailedError("DeleteTaskList operation failed"),
                          Null, r.db)
    /\ UNCHANGED pending

\* The inserts of the tasks of a CreateTasks request, with a TTL for the
\* tasks that have a ScheduleToStartTimeout.
RECURSIVE CreateTaskStatements(_, _)
CreateTaskStatements(batch, tasks) ==
    IF tasks = {} THEN batch
    ELSE LET task == CHOOSE x \in tasks : \A y \in tasks : x.TaskID <= y.TaskID
         IN  CreateTaskStatements(
                 Append(batch, IF task.ScheduleToStartTimeout <= 0
                               THEN templateCreateTaskQuery(task.TaskID)
                               ELSE templateCreateTaskWithTTLQuery(task.TaskID)),
                 tasks \ {task})

\* A variant of the batch below without the statement on the row of the
\* task list.
CreateTasksBatchWithoutRangeCheck(request) ==
    CreateTaskStatements(<<>>, request.Tasks)

\* The whole batch of CreateTasks: the inserts and the update of the row
\* of the task list IF range_id = the RangeID of the request.
CreateTasksBatch(request) ==
    Append(CreateTaskStatements(<<>>, request.Tasks),
           templateUpdateTaskListQuery(request.TaskListInfo.RangeID,
                                       request.TaskListInfo.AckLevel,
                                       request.TaskListInfo.Kind,
                                       request.TaskListInfo.RangeID))

CreateTasks(request) ==
    /\ Idle
    /\ calls' = calls + 1
    /\ LET r == MapExecuteBatchCAS(tasksTable, CreateTasksBatch(request))
       IN  FinishTaskList("CreateTasks", request, request.TaskListInfo.RangeID,
                          IF r.applied THEN NoError
                          ELSE ConditionFailedError("Failed to create task"),
                          Null, r.db)
    /\ UNCHANGED pending

\* The rows templateGetTasksQuery selects, task_id > readLevel and
\* task_id <= maxReadLevel, in the order of the clustering column task_id.
RECURSIVE templateGetTasksQuery(_, _, _)
templateGetTasksQuery(rows, readLevel, maxReadLevel) ==
    LET selected == {t \in rows : t.task_id > readLevel /\ t.task_id <= maxReadLevel}
    IN  IF selected = {} THEN <<>>
        ELSE LET first == CHOOSE x \in selected : \A y \in selected : x.task_id <= y.task_id
             IN  <<first>> \o templateGetTasksQuery(selected \ {first}, readLevel, maxReadLevel)

\* The loop of GetTasks over the iterator: every row is appended to the
\* tasks of the response, and the loop is left when the response has
\* BatchSize tasks.
RECURSIVE PopulateTasks(_, _, _)
PopulateTasks(iter, tasks, batchSize) ==
    IF iter = <<>> THEN tasks
    ELSE LET appended == Append(tasks, [TaskID |-> Head(iter).task_id])
         IN  IF Len(appended) = batchSize THEN appended
             ELSE PopulateTasks(Tail(iter), appended, batchSize)

\* GetTasks: a MaxReadLevel is required; nothing is read when ReadLevel is
\* above it.  MaxReadLevel is a pointer: Null, or <<m>> for a pointer to m.
GetTasks(request) ==
    /\ Idle
    /\ calls' = calls + 1
    /\ IF request.MaxReadLevel = Null
       THEN FinishTaskList("GetTasks", request, Null, InternalServiceError, Null, tasksTable)
       ELSE IF request.ReadLevel > request.MaxReadLevel[1]
       THEN FinishTaskList("GetTasks", request, Null, NoError, [Tasks |-> <<>>], tasksTable)
       ELSE FinishTaskList("GetTasks", request, Null, NoError,
                           [Tasks |-> PopulateTasks(
                                          templateGetTasksQuery(tasksTable.rows,
                                                                request.ReadLevel,
                                                                request.MaxReadLevel[1]),
                                          <<>>, request.BatchSize)],
                           tasksTable)
    /\ UNCHANGED pending

\* A variant of CompleteTask that reports an error when there is no task
\* of the given id.
CompleteTaskFailingWhenAbsent(request) ==
    /\ Idle
    /\ calls' = calls + 1
    /\ FinishTaskList("CompleteTask", request, request.TaskList.RangeID,
                      IF \E t \in tasksTable.rows : t.task_id = request.TaskID
                      THEN NoError ELSE InternalServiceError,
                      Null,
                      Exec(tasksTable, templateCompleteTaskQuery(request.TaskID)))
    /\ UNCHANGED pending

\* CompleteTask: the request names the task list by its TaskListInfo, of
\* which the statement takes the key only.
CompleteTask(request) ==
    /\ Idle
    /\ calls' = calls + 1
    /\ FinishTaskList("CompleteTask", request, request.TaskList.RangeID, NoError, Null,
                      Exec(tasksTable, templateCompleteTaskQuery(request.TaskID)))
    /\ UNCHANGED pending

\* p.UnknownNumRowsAffected, the number CompleteTasksLessThan returns for
\* the rows it deleted: below zero, so that it is no count of rows.
UnknownNumRowsAffected == 0 - 1

\* CompleteTasksLessThan: the request carries no range_id.
CompleteTasksLessThan(request, rangeID) ==
    /\ Idle
    /\ calls' = calls + 1
    /\ FinishTaskList("CompleteTasksLessThan", request, rangeID, NoError,
                      UnknownNumRowsAffected,
                      Exec(tasksTable, templateCompleteTasksLessThanQuery(request.TaskID)))
    /\ UNCHANGED pending

-----------------------------------------------------------------------------
(* Requests *)

SpecRunIDs == {"r1", "r2"}

RangeIDs == 1..MaxRangeID

EventIDs == 1..MaxEventID

Owners == {"host1"}

ShardInfos == [RangeID : RangeIDs, Owner : Owners]

CreateShardRequests == [ShardInfo : ShardInfos]

UpdateShardRequests == [ShardInfo : ShardInfos, PreviousRangeID : RangeIDs]

ReplicationStates == {Null, [StartVersion |-> 1, LastWriteVersion |-> 1]}

TaskSets == {{[TaskID |-> 1, VisibilityTimestamp |-> 1]}}

NewRunRequest(mode, runID, previousRunID, previousLastWriteVersion, rangeID, state, rs, tasks) ==
    [CreateWorkflowMode       |-> mode,
     RunID                    |-> runID,
     PreviousRunID            |-> previousRunID,
     PreviousLastWriteVersion |-> previousLastWriteVersion,
     RangeID                  |-> rangeID,
     State                    |-> state,
     CloseStatus              |-> WorkflowCloseStatusNone,
     NextEventID              |-> 1,
     RequestID                |-> "q1",
     ReplicationState         |-> rs,
     VersionHistories         |-> Null,
     TransferTasks            |-> tasks,
     TimerTasks               |-> tasks,
     ReplicationTasks         |-> tasks]

\* Requests of CreateWorkflowExecution.  PreviousRunID is read by the
\* ContinueAsNew and WorkflowIDReuse modes only, PreviousLastWriteVersion by
\* WorkflowIDReuse with a ReplicationState only.
CreateRequests ==
    {NewRunRequest(CreateWorkflowModeBrandNew, r, "r1", EmptyVersion, g, WorkflowStateRunning, rs, t) :
        <<r, g, rs, t>> \in SpecRunIDs \X RangeIDs \X ReplicationStates \X TaskSets}
    \cup
    {NewRunRequest(CreateWorkflowModeContinueAsNew, r, q, EmptyVersion, g, WorkflowStateRunning, rs, t) :
        <<r, q, g, rs, t>> \in SpecRunIDs \X SpecRunIDs \X RangeIDs \X ReplicationStates \X TaskSets}
    \cup
    {NewRunRequest(CreateWorkflowModeWorkflowIDReuse, r, q, v, g, WorkflowStateRunning, rs, t) :
        <<r, q, v, g, rs, t>> \in SpecRunIDs \X SpecRunIDs \X {EmptyVersion, 1} \X RangeIDs
                                    \X (ReplicationStates \ {Null}) \X TaskSets}
    \cup
    {NewRunRequest(CreateWorkflowModeWorkflowIDReuse, r, q, EmptyVersion, g,
                   WorkflowStateRunning, Null, t) :
        <<r, q, g, t>> \in SpecRunIDs \X SpecRunIDs \X RangeIDs \X TaskSets}

ZombieRequests ==
    {NewRunRequest(CreateWorkflowModeZombie, r, "r1", EmptyVersion, g, WorkflowStateZombie, rs, t) :
        <<r, g, rs, t>> \in SpecRunIDs \X RangeIDs \X ReplicationStates \X TaskSets}
    \cup
    {NewRunRequest(CreateWorkflowModeZombie, r, "r1", EmptyVersion, g, WorkflowStateRunning, Null, t) :
        <<r, g, t>> \in SpecRunIDs \X RangeIDs \X TaskSets}

UpdateStates ==
    {<<WorkflowStateRunning, WorkflowCloseStatusNone>>,
     <<WorkflowStateCompleted, WorkflowCloseStatusCompleted>>,
     <<WorkflowStateZombie, WorkflowCloseStatusNone>>}

WorkflowMutation(runID, sc, nextEventID, condition, rs, tasks) ==
    [ExecutionInfo    |-> [RunID |-> runID, CreateRequestID |-> "q1", State |-> sc[1],
                           CloseStatus |-> sc[2], NextEventID |-> nextEventID],
     Condition        |-> condition,
     ReplicationState |-> rs,
     VersionHistories |-> Null,
     TransferTasks    |-> tasks,
     TimerTasks       |-> tasks,
     ReplicationTasks |-> tasks]

\* The pairs <<NextEventID, Condition>> of the update requests: the caller
\* keeps next_event_id as it is or advances it by one.
EventIDSteps ==
    {<<n, c>> \in EventIDs \X EventIDs : n = c \/ n = c + 1}

\* Requests of UpdateWorkflowExecution without a continue-as-new; those
\* that leave the run in state Created keep its next_event_id at 1.
UpdateRequests ==
    {[RangeID |-> g, UpdateWorkflowMutation |-> WorkflowMutation(r, sc, nc[1], nc[2], rs, t),
      ContinueAsNew |-> Null] :
        <<g, r, sc, nc, rs, t>> \in RangeIDs \X SpecRunIDs \X UpdateStates \X EventIDSteps
                                    \X ReplicationStates \X TaskSets}
    \cup
    {[RangeID |-> g,
      UpdateWorkflowMutation |->
          WorkflowMutation(r, <<WorkflowStateCreated, WorkflowCloseStatusNone>>, 1, 1, Null, t),
      ContinueAsNew |-> Null] :
        <<g, r, t>> \in RangeIDs \X SpecRunIDs \X TaskSets}

OtherRun(runID) == IF runID = "r1" THEN "r2" ELSE "r1"

\* Requests of UpdateWorkflowExecution that close the run and continue it as
\* a new run with another run id.
ContinueAsNewRequests ==
    {[RangeID |-> g,
      UpdateWorkflowMutation |->
          WorkflowMutation(r, <<WorkflowStateCompleted, WorkflowCloseStatusCompleted>>,
                           nc[1], nc[2], rs, t),
      ContinueAsNew |->
          NewRunRequest(CreateWorkflowModeContinueAsNew, OtherRun(r), r, EmptyVersion, g,
                        WorkflowStateRunning, rs, {[TaskID |-> 2, VisibilityTimestamp |-> 2]})] :
        <<g, r, nc, rs, t>> \in RangeIDs \X SpecRunIDs \X EventIDSteps
                                \X ReplicationStates \X TaskSets}

\* Requests of ResetWorkflowExecution: the new run has another run id than
\* the current run, and the base run is the current run or the run r3.
ResetRequests ==
    {[RangeID              |-> g,
      CurrExecutionInfo    |-> [RunID |-> r, CreateRequestID |-> "q1",
                                State |-> WorkflowStateCompleted,
                                CloseStatus |-> WorkflowCloseStatusCompleted,
                                NextEventID |-> c],
      CurrReplicationState |-> rs,
      CurrVersionHistories |-> Null,
      Condition            |-> c,
      UpdateCurr           |-> u,
      BaseRunID            |-> b,
      BaseRunNextEventID   |-> 1,
      PrevRunVersion       |-> EmptyVersion,
      PrevRunState         |-> WorkflowStateRunning,
      NewWorkflowSnapshot  |->
          WorkflowMutation(OtherRun(r), <<WorkflowStateRunning, WorkflowCloseStatusNone>>,
                           1, 0, rs, {[TaskID |-> 2, VisibilityTimestamp |-> 2]}),
      CurrTransferTasks    |-> t,
      CurrTimerTasks       |-> t,
      CurrReplicationTasks |-> t] :
        <<g, r, c, u, b, rs, t>> \in RangeIDs \X SpecRunIDs \X EventIDs \X BOOLEAN
                                     \X {"r1", "r3"} \X ReplicationStates \X TaskSets}

\* Requests of ResetMutableState; the snapshot always carries a
\* ReplicationState, which the operation reads without a nil check.
ResetMutableStateRequests ==
    {[RangeID               |-> g,
      PrevRunID             |-> q,
      PrevLastWriteVersion  |-> v,
      PrevState             |-> WorkflowStateRunning,
      ResetWorkflowSnapshot |->
          WorkflowMutation(r, <<WorkflowStateRunning, WorkflowCloseStatusNone>>, n, c,
                           [StartVersion |-> 1, LastWriteVersion |-> 1], t)] :
        <<g, q, v, r, n, c, t>> \in RangeIDs \X SpecRunIDs \X {EmptyVersion, 1} \X SpecRunIDs
                                    \X {1} \X {1} \X TaskSets}

-----------------------------------------------------------------------------
(* The specification *)

\* The stores the model starts from: an empty table, a table with the
\* shard row, and a table with the shard row and one workflow started by a
\* BrandNew create, which is then the last applied call.
TableWithShard ==
    MapExecuteBatchCAS(EmptyTable,
        <<templateCreateShardQuery([RangeID |-> 1, Owner |-> "host1"])>>).db

FirstStartRequest ==
    NewRunRequest(CreateWorkflowModeBrandNew, "r1", "r1", EmptyVersion, 1,
                  WorkflowStateRunning, Null, {[TaskID |-> 1, VisibilityTimestamp |-> 1]})

TableWithWorkflow ==
    MapExecuteBatchCAS(TableWithShard, CreateWorkflowExecutionBatch(FirstStartRequest).batch).db

InitialStores ==
    {[db |-> EmptyTable, applied |-> Null],
     [db |-> TableWithShard, applied |-> Null],
     [db |-> TableWithWorkflow,
      applied |-> [op |-> "CreateWorkflowExecution", request |-> FirstStartRequest]]}

Init ==
    /\ \E s \in InitialStores : executions = s.db /\ applied = s.applied
    /\ tasksTable = EmptyTasksTable
    /\ pending = Null
    /\ granted = {}
    /\ last = Null
    /\ calls = 0

Next ==
    \/ \E request \in CreateShardRequests : CreateShard(request)
    \/ \E request \in UpdateShardRequests : UpdateShard(request)
    \/ \E request \in CreateRequests : CreateWorkflowExecution(request)
    \/ \E request \in ZombieRequests : CreateZombieAssert(request)
    \/ CreateZombieBatch
    \/ \E request \in UpdateRequests \cup ContinueAsNewRequests : UpdateWorkflowExecution(request)
    \/ \E request \in UpdateRequests : UpdateZombieAssert(request)
    \/ UpdateZombieBatch
    \/ \E request \in ResetRequests : ResetWorkflowExecution(request)
    \/ \E request \in ResetMutableStateRequests : ResetMutableState(request)
    \/ Return

Spec == Init /\ [][Next]_vars

-----------------------------------------------------------------------------
(* Properties of CreateWorkflowExecution *)

\* The call that has just finished is a CreateWorkflowExecution.
CreateFinished ==
    /\ last # Null
    /\ last.op = "CreateWorkflowExecution"

\* The caller of the finished call held the range_id the shard row had when
\* the batch was executed.
TokenHeld ==
    /\ last.pre.shard # Null
    /\ last.pre.shard.range_id = last.request.RangeID

\* The finished call is the loser of a BrandNew race: a BrandNew create of
\* another run id was the last call applied before it, and the caller holds
\* the shard's range_id.
BrandNewLoser ==
    /\ CreateFinished
    /\ last.request.CreateWorkflowMode = CreateWorkflowModeBrandNew
    /\ TokenHeld
    /\ last.preApplied # Null
    /\ last.preApplied.op = "CreateWorkflowExecution"
    /\ last.preApplied.request.CreateWorkflowMode = CreateWorkflowModeBrandNew
    /\ last.preApplied.request.RunID # last.request.RunID

\* C1: of two BrandNew creates of one workflow id with distinct run ids,
\* both issued with the shard's range_id, the one executed after the other
\* was applied is rejected with WorkflowExecutionAlreadyStarted carrying
\* the run id the winner wrote, and the table stays as the winner left it.
C1_BrandNewRace ==
    BrandNewLoser =>
        /\ last.res.err = "WorkflowExecutionAlreadyStarted"
        /\ last.res.RunID = last.preApplied.request.RunID
        /\ executions = last.pre

C1_Witness ==
    /\ BrandNewLoser
    /\ last.res.err = "WorkflowExecutionAlreadyStarted"
    /\ executions.current.current_run_id = last.preApplied.request.RunID

SecondCreateFromSamePrevious ==
    /\ CreateFinished
    /\ last.request.CreateWorkflowMode \in
           {CreateWorkflowModeContinueAsNew, CreateWorkflowModeWorkflowIDReuse}
    /\ TokenHeld
    /\ last.preApplied # Null
    /\ last.preApplied.op = "CreateWorkflowExecution"
    /\ last.preApplied.request.CreateWorkflowMode \in
           {CreateWorkflowModeContinueAsNew, CreateWorkflowModeWorkflowIDReuse}
    /\ last.preApplied.request.PreviousRunID = last.request.PreviousRunID
    /\ last.preApplied.request.RunID # last.request.PreviousRunID

\* C3 as stated: the second create fails with CurrentWorkflowConditionFailed
\* or WorkflowExecutionAlreadyStarted and the table (pointer, the first
\* writer's run and the task queues) stays as the first writer left it.
C3_SecondCreateRejected ==
    SecondCreateFromSamePrevious =>
        /\ last.res.err \in {"CurrentWorkflowConditionFailed", "WorkflowExecutionAlreadyStarted"}
        /\ executions = last.pre

\* C10 as stated: a create rejected on its current-execution row returns
\* CurrentWorkflowConditionFailed exactly when the observed current_run_id
\* differs from PreviousRunID, and ConditionFailed when it equals
\* PreviousRunID and the version or the state did not match.
C10_RunIDMismatchAgainstPrevious ==
    (/\ CreateFinished
     /\ EffectiveCreateMode(last.request) \in
            {CreateWorkflowModeContinueAsNew, CreateWorkflowModeWorkflowIDReuse}
     /\ TokenHeld
     /\ last.pre.current # Null
     /\ last.res # NoError) =>
        IF last.pre.current.current_run_id # last.request.PreviousRunID
        THEN last.res = CurrentWorkflowConditionFailedError
        ELSE last.res.err = "ConditionFailed"

\* The finished call is an applied create in WorkflowIDReuse mode.
ReuseApplied ==
    /\ CreateFinished
    /\ last.request.CreateWorkflowMode = CreateWorkflowModeWorkflowIDReuse
    /\ last.res = NoError

\* C11 as stated: a create in WorkflowIDReuse mode is applied only if the
\* current-execution row names PreviousRunID, its last write version is
\* PreviousLastWriteVersion and its state is Completed, with or without a
\* ReplicationState in the request.
C11_ReuseChecksVersionAndState ==
    ReuseApplied =>
        /\ last.pre.current # Null
        /\ last.pre.current.current_run_id = last.request.PreviousRunID
        /\ last.pre.current.workflow_last_write_version = last.request.PreviousLastWriteVersion
        /\ last.pre.current.workflow_state = WorkflowStateCompleted

\* C11: a create in WorkflowIDReuse mode is applied only if the
\* current-execution row names PreviousRunID; when the request carries a
\* ReplicationState, also only if the row's last write version is
\* PreviousLastWriteVersion and its state is Completed.  Without a
\* ReplicationState the mode is ContinueAsNew and neither the version nor
\* the state is compared.
C11_ReuseConditions ==
    ReuseApplied =>
        /\ last.pre.current # Null
        /\ last.pre.current.current_run_id = last.request.PreviousRunID
        /\ last.request.ReplicationState # Null =>
               /\ last.pre.current.workflow_last_write_version
                      = last.request.PreviousLastWriteVersion
               /\ last.pre.current.workflow_state = WorkflowStateCompleted
        /\ executions.current.current_run_id = last.request.RunID

\* A WorkflowIDReuse create with a ReplicationState applied on a completed
\* run of another run id.
C11_Witness ==
    /\ ReuseApplied
    /\ last.request.ReplicationState # Null
    /\ last.request.RunID # last.request.PreviousRunID
    /\ last.pre.current.workflow_state = WorkflowStateCompleted
    /\ executions.current.current_run_id = last.request.RunID

\* The finished call is a create in Zombie mode, whatever its result.
ZombieCreateFinished ==
    /\ CreateFinished
    /\ last.request.CreateWorkflowMode = CreateWorkflowModeZombie

\* C12: a create in Zombie mode, applied or not, leaves the
\* current-execution row, present or absent, exactly as it was when the
\* call's batch was executed (or, when the assertion refused the call, as
\* it was when the call was made).
C12_ZombieCreateLeavesPointer ==
    ZombieCreateFinished => executions.current = last.pre.current

\* An applied Zombie create that wrote its run next to an existing
\* current-execution row of another run.
C12_Witness ==
    /\ ZombieCreateFinished
    /\ last.res = NoError
    /\ last.pre.current # Null
    /\ last.pre.runs[last.request.RunID] = Null
    /\ executions.runs[last.request.RunID].execution.state = WorkflowStateZombie
    /\ executions.current = last.pre.current

\* C13 as stated: in every reachable state the run named by the
\* current-execution row is not stored in state Zombie; the assertion made
\* before a Zombie create or a Zombie update still holds when the batch is
\* applied.
C13_NoZombieIsCurrent ==
    executions.current # Null =>
        LET run == executions.runs[executions.current.current_run_id]
        IN  (run # Null /\ run.execution # Null) =>
                run.execution.state # WorkflowStateZombie

-----------------------------------------------------------------------------
(* Properties of the batches *)

BatchOperations ==
    {"CreateWorkflowExecution", "UpdateWorkflowExecution", "ResetWorkflowExecution",
     "ResetMutableState"}

\* The transfer tasks the finished call carried in its batch.
CarriedTransferTasks ==
    CASE last.op = "CreateWorkflowExecution" -> last.request.TransferTasks
      [] last.op = "UpdateWorkflowExecution" ->
            last.request.UpdateWorkflowMutation.TransferTasks
                \cup (IF last.request.ContinueAsNew # Null
                      THEN last.request.ContinueAsNew.TransferTasks ELSE {})
      [] last.op = "ResetWorkflowExecution" ->
            last.request.NewWorkflowSnapshot.TransferTasks
                \cup (IF last.request.UpdateCurr THEN last.request.CurrTransferTasks ELSE {})
      [] last.op = "ResetMutableState" -> last.request.ResetWorkflowSnapshot.TransferTasks

\* C4: a create, update or reset batch is applied as a whole or not at
\* all: after a rejected call the shard row, the current-execution row,
\* the rows of the runs and the three task queues are what they were
\* before it, and after an applied call every transfer task the batch
\* carried is in the queue.
C4_BatchAllOrNothing ==
    (last # Null /\ last.op \in BatchOperations) =>
        IF last.res # NoError
        THEN executions = last.pre
        ELSE \A t \in CarriedTransferTasks :
                 \E row \in executions.transfer : row.task_id = t.TaskID

\* A rejected update whose shard condition held and whose next_event_id
\* condition did not, with tasks in the batch.
C4_Witness ==
    /\ last # Null
    /\ last.op = "UpdateWorkflowExecution"
    /\ TokenHeld
    /\ last.res = ConditionFailedError("nextEventID")
    /\ last.request.UpdateWorkflowMutation.TransferTasks # {}
    /\ executions = last.pre

\* The range_id the caller of the finished call presented.
PresentedRangeID ==
    IF last.op = "UpdateShard" THEN last.request.PreviousRangeID ELSE last.request.RangeID

\* The finished call executed its batch on a table that has the shard row:
\* InternalServiceError is returned only by the validations and by the
\* assertion that precede the batch.
WriteOnShard ==
    /\ last # Null
    /\ last.op \in BatchOperations \cup {"UpdateShard"}
    /\ last.pre.shard # Null
    /\ last.res # InternalServiceError

\* C5 as stated: ShardOwnershipLost is returned if and only if the range_id
\* presented differs from the one stored in the shard row.
C5_OwnershipLostIffTokenDiffers ==
    WriteOnShard =>
        (last.res = ShardOwnershipLostError <=> last.pre.shard.range_id # PresentedRangeID)

-----------------------------------------------------------------------------
(* Properties of UpdateWorkflowExecution *)

UpdateApplied ==
    /\ last # Null
    /\ last.op = "UpdateWorkflowExecution"
    /\ last.res = NoError

UpdatedRun == last.request.UpdateWorkflowMutation.ExecutionInfo.RunID

\* C6 as stated: an update is applied only if the stored next_event_id of
\* the run equals Condition, and every applied update makes the stored
\* next_event_id strictly larger.
C6_NextEventIDStrictlyIncreases ==
    UpdateApplied =>
        /\ last.pre.runs[UpdatedRun] # Null
        /\ last.pre.runs[UpdatedRun].next_event_id = last.request.UpdateWorkflowMutation.Condition
        /\ executions.runs[UpdatedRun].next_event_id > last.pre.runs[UpdatedRun].next_event_id

\* C6: an update is applied only if the stored next_event_id of the run
\* equals Condition, and an applied update stores the NextEventID of the
\* request, whatever its relation to Condition.
C6_NextEventIDCompareAndSet ==
    UpdateApplied =>
        /\ last.pre.runs[UpdatedRun] # Null
        /\ last.pre.runs[UpdatedRun].next_event_id = last.request.UpdateWorkflowMutation.Condition
        /\ executions.runs[UpdatedRun].next_event_id =
               last.request.UpdateWorkflowMutation.ExecutionInfo.NextEventID

\* An applied update that does not advance next_event_id.
C6_Witness ==
    /\ UpdateApplied
    /\ last.request.UpdateWorkflowMutation.ExecutionInfo.NextEventID
           = last.request.UpdateWorkflowMutation.Condition
    /\ executions.runs[UpdatedRun].next_event_id = last.pre.runs[UpdatedRun].next_event_id

\* The finished call repeats the update that was the last call applied
\* before it, the run is still the current run and the update does not
\* make it a Zombie (a Zombie update of the current run is refused before
\* its batch).
UpdateReissued ==
    /\ last # Null
    /\ last.op = "UpdateWorkflowExecution"
    /\ last.preApplied = [op |-> "UpdateWorkflowExecution", request |-> last.request]
    /\ last.request.UpdateWorkflowMutation.ExecutionInfo.State # WorkflowStateZombie
    /\ last.pre.current # Null
    /\ last.pre.current.current_run_id = UpdatedRun

\* C7 as stated: the repeated update fails with ConditionFailed and leaves
\* the stored run unchanged.
C7_ReissueFails ==
    UpdateReissued =>
        /\ last.res.err = "ConditionFailed"
        /\ executions.runs[UpdatedRun] = last.pre.runs[UpdatedRun]

\* C7: the repeated update fails with ConditionFailed and leaves the table
\* unchanged when the request's NextEventID differs from its Condition;
\* when they are equal the repeated update is applied again.
C7_ReissueFailsWhenAdvanced ==
    UpdateReissued =>
        IF last.request.UpdateWorkflowMutation.ExecutionInfo.NextEventID
               # last.request.UpdateWorkflowMutation.Condition
        THEN /\ last.res = ConditionFailedError("nextEventID")
             /\ executions = last.pre
        ELSE last.res = NoError

C7_Witness ==
    /\ UpdateReissued
    /\ last.request.UpdateWorkflowMutation.ExecutionInfo.NextEventID
           # last.request.UpdateWorkflowMutation.Condition
    /\ last.res = ConditionFailedError("nextEventID")

\* The finished call is an update without a continue-as-new that leaves
\* the run in state Created, Running or Completed, with a close status that
\* fits the state.
UpdateOfCurrentFinished ==
    /\ last # Null
    /\ last.op = "UpdateWorkflowExecution"
    /\ last.request.ContinueAsNew = Null
    /\ last.request.UpdateWorkflowMutation.ExecutionInfo.State \in
           {WorkflowStateCreated, WorkflowStateRunning, WorkflowStateCompleted}
    /\ ValidateUpdateWorkflowStateCloseStatus(
           last.request.UpdateWorkflowMutation.ExecutionInfo.State,
           last.request.UpdateWorkflowMutation.ExecutionInfo.CloseStatus)

\* C14: such an update is applied only if the current-execution row names
\* the updated run; after an applied update the row still names the run
\* and carries the state and the close status of the request; when the row
\* names another run and the caller holds the shard's range_id the update
\* fails with CurrentWorkflowConditionFailed and the table is unchanged.
C14_UpdateRequiresCurrentRun ==
    UpdateOfCurrentFinished =>
        /\ last.res = NoError =>
               /\ last.pre.current # Null
               /\ last.pre.current.current_run_id = UpdatedRun
               /\ executions.current.current_run_id = UpdatedRun
               /\ executions.current.execution.state
                      = last.request.UpdateWorkflowMutation.ExecutionInfo.State
               /\ executions.current.workflow_state
                      = last.request.UpdateWorkflowMutation.ExecutionInfo.State
               /\ executions.current.execution.close_status
                      = last.request.UpdateWorkflowMutation.ExecutionInfo.CloseStatus
        /\ (/\ last.pre.current # Null
            /\ last.pre.current.current_run_id # UpdatedRun
            /\ TokenHeld) =>
               /\ last.res = CurrentWorkflowConditionFailedError
               /\ executions = last.pre

\* An applied update that completes the current run.
C14_Witness ==
    /\ UpdateOfCurrentFinished
    /\ last.res = NoError
    /\ last.pre.current.execution.state = WorkflowStateRunning
    /\ executions.current.execution.state = WorkflowStateCompleted
    /\ executions.current.execution.close_status = WorkflowCloseStatusCompleted

-----------------------------------------------------------------------------
(* Properties of the shard row *)

CreateShardFinished ==
    /\ last # Null
    /\ last.op = "CreateShard"

\* C15: CreateShard inserts the shard row if and only if the table has no
\* shard row; otherwise it returns ShardAlreadyExist and the table is
\* unchanged; a CreateShard executed after another CreateShard was applied
\* is rejected, so of any number of calls exactly one is applied.
C15_CreateShardOnce ==
    CreateShardFinished =>
        /\ last.res = NoError <=> last.pre.shard = Null
        /\ last.res = NoError =>
               executions = [last.pre EXCEPT !.shard = ShardRow(last.request.ShardInfo)]
        /\ last.res # NoError =>
               /\ last.res = ShardAlreadyExistError
               /\ executions = last.pre
        /\ (last.preApplied # Null /\ last.preApplied.op = "CreateShard") =>
               last.res = ShardAlreadyExistError

\* The second of two CreateShard calls, with another range_id, rejected;
\* the row of the first is still there.
C15_Witness ==
    /\ CreateShardFinished
    /\ last.preApplied # Null
    /\ last.preApplied.op = "CreateShard"
    /\ last.preApplied.request.ShardInfo # last.request.ShardInfo
    /\ last.res = ShardAlreadyExistError
    /\ executions.shard = ShardRow(last.preApplied.request.ShardInfo)

UpdateShardFinished ==
    /\ last # Null
    /\ last.op = "UpdateShard"

\* C16: UpdateShard is applied if and only if the shard row exists and its
\* range_id equals PreviousRangeID; when applied, the shard row becomes the
\* ShardInfo of the request and nothing else changes; when rejected the
\* call returns ShardOwnershipLost and the table is unchanged.
C16_UpdateShardCompareAndSet ==
    UpdateShardFinished =>
        /\ last.res = NoError <=>
               (last.pre.shard # Null
                /\ last.pre.shard.range_id = last.request.PreviousRangeID)
        /\ last.res = NoError =>
               /\ executions = [last.pre EXCEPT !.shard = ShardRow(last.request.ShardInfo)]
               /\ executions.shard.range_id = last.request.ShardInfo.RangeID
        /\ last.res # NoError =>
               /\ last.res = ShardOwnershipLostError
               /\ executions = last.pre

\* An applied UpdateShard that moved the range_id.
C16_Witness ==
    /\ UpdateShardFinished
    /\ last.res = NoError
    /\ last.request.ShardInfo.RangeID # last.request.PreviousRangeID
    /\ executions.shard.range_id = last.request.ShardInfo.RangeID
    /\ last.pre.shard.range_id = last.request.PreviousRangeID

\* C17 as stated: the stored range_id never decreases, and every applied
\* UpdateShard leaves a range_id strictly greater than the one stored
\* before it.
C17_RangeIDStrictlyIncreases ==
    (last # Null /\ last.op \in BatchOperations \cup {"UpdateShard", "CreateShard"}
     /\ last.pre.shard # Null) =>
        /\ executions.shard # Null
        /\ executions.shard.range_id >= last.pre.shard.range_id
        /\ (last.op = "UpdateShard" /\ last.res = NoError) =>
               executions.shard.range_id > last.pre.shard.range_id

\* C17: the stored range_id is changed by an applied UpdateShard only,
\* which replaces PreviousRangeID by the RangeID of the request's
\* ShardInfo, whatever the order of the two; every other call leaves the
\* stored range_id as it is.
C17_RangeIDSetByUpdateShard ==
    (last # Null /\ last.op \in BatchOperations \cup {"UpdateShard", "CreateShard"}
     /\ last.pre.shard # Null) =>
        /\ executions.shard # Null
        /\ IF last.op = "UpdateShard" /\ last.res = NoError
           THEN /\ last.pre.shard.range_id = last.request.PreviousRangeID
                /\ executions.shard.range_id = last.request.ShardInfo.RangeID
           ELSE executions.shard.range_id = last.pre.shard.range_id

\* An applied UpdateShard that lowered the stored range_id.
C17_Witness ==
    /\ UpdateShardFinished
    /\ last.res = NoError
    /\ last.request.ShardInfo.RangeID < last.request.PreviousRangeID
    /\ executions.shard.range_id < last.pre.shard.range_id

\* The finished call is the second of two UpdateShard calls issued with
\* one PreviousRangeID that was the stored range_id: the first was the last
\* call applied before it.
UpdateShardRaceLoser ==
    /\ UpdateShardFinished
    /\ last.preApplied # Null
    /\ last.preApplied.op = "UpdateShard"
    /\ last.preApplied.request.PreviousRangeID = last.request.PreviousRangeID

\* C18 as stated: the second call returns ShardOwnershipLost.
C18_SecondUpdateShardLoses ==
    UpdateShardRaceLoser =>
        /\ last.res = ShardOwnershipLostError
        /\ executions = last.pre

\* C18: the second call returns ShardOwnershipLost and leaves the table
\* unchanged when the first wrote a range_id other than PreviousRangeID;
\* when the first wrote PreviousRangeID again the second is applied too.
C18_SecondUpdateShardLosesWhenMoved ==
    UpdateShardRaceLoser =>
        IF last.preApplied.request.ShardInfo.RangeID # last.request.PreviousRangeID
        THEN /\ last.res = ShardOwnershipLostError
             /\ executions = last.pre
        ELSE last.res = NoError

C18_Witness ==
    /\ UpdateShardRaceLoser
    /\ last.preApplied.request.ShardInfo.RangeID # last.request.PreviousRangeID
    /\ last.res = ShardOwnershipLostError
    /\ executions.shard = ShardRow(last.preApplied.request.ShardInfo)

-----------------------------------------------------------------------------
(* The classifiers on their own: any rows, in any order *)

MaxRows == 3

\* The columns a rejected update or reset batch returns.
UpdateColumns == {"range_id", "next_event_id", "current_run_id"}

\* The rows a table can hand back: the shard row, rows of runs, and the
\* current-execution row, whatever their values.
ClassifierRows(columns) ==
    {ReturnedRow(rowTypeShard, rowTypeShardRunID, columns, g, 0, emptyUUID, Null, Null) :
        g \in RangeIDs}
    \cup
    {ReturnedRow(rowTypeExecution, r, columns, 0, n, emptyUUID, Null, Null) :
        <<r, n>> \in SpecRunIDs \X EventIDs}
    \cup
    {ReturnedRow(rowTypeExecution, permanentRunID, columns, 0, 0, r,
                 [run_id |-> r, create_request_id |-> "q1", state |-> WorkflowStateRunning,
                  close_status |-> WorkflowCloseStatusNone],
                 [start_version |-> 1, last_write_version |-> 1]) :
        r \in SpecRunIDs}

\* Every sequence of at most MaxRows rows with distinct primary keys.
RowSequences(columns) ==
    UNION {{f \in [1..Cardinality(S) -> S] :
               \A i, j \in 1..Cardinality(S) : i # j => f[i] # f[j]} :
           S \in {T \in SUBSET ClassifierRows(columns) :
                     /\ Cardinality(T) <= MaxRows
                     /\ \A a, b \in T :
                            (a.type = b.type /\ a.run_id = b.run_id) => a = b}}

\* getExecutionConditionalUpdateFailure applied to the rows of a rejected
\* update or reset batch, for the run r1.
ClassifyUpdateFailure(rows, condition, rangeID, conditionalRunID) ==
    /\ last = Null
    /\ last' = [op |-> "getExecutionConditionalUpdateFailure", rows |-> rows,
                requestRunID |-> "r1", requestCondition |-> condition,
                requestRangeID |-> rangeID, requestConditionalRunID |-> conditionalRunID,
                res |-> getExecutionConditionalUpdateFailure(rows, "r1", condition, rangeID,
                                                             conditionalRunID)]
    /\ UNCHANGED <<executions, tasksTable, pending, applied, granted, calls>>

\* The loop of CreateWorkflowExecution applied to the rows of a rejected
\* create batch.
ClassifyCreateFailure(rows, request) ==
    /\ last = Null
    /\ last' = [op |-> "CreateWorkflowExecutionFailure", rows |-> rows, request |-> request,
                res |-> CreateWorkflowExecutionFailure(rows, request)]
    /\ UNCHANGED <<executions, tasksTable, pending, applied, granted, calls>>

InitClassify ==
    /\ executions = EmptyTable
    /\ tasksTable = EmptyTasksTable
    /\ pending = Null
    /\ applied = Null
    /\ granted = {}
    /\ last = Null
    /\ calls = 0

NextClassify ==
    \/ /\ last = Null
       /\ \E rows \in RowSequences(UpdateColumns), c \in EventIDs, g \in RangeIDs,
             q \in SpecRunIDs :
               ClassifyUpdateFailure(rows, c, g, q)
    \/ /\ last = Null
       /\ \E request \in CreateRequests :
             \E rows \in RowSequences(ReturnedColumns(CreateWorkflowExecutionBatch(request).batch)) :
               ClassifyCreateFailure(rows, request)
    \/ Return

SpecClassify == InitClassify /\ [][NextClassify]_vars

UpdateFailureClassified ==
    /\ last # Null
    /\ last.op = "getExecutionConditionalUpdateFailure"

RowsOf(rows) == {rows[i] : i \in 1..Len(rows)}

\* C8: the error of a rejected update or reset batch is fixed by the set
\* of returned rows, whatever their order: ShardOwnershipLost if some
\* shard row has another range_id; else CurrentWorkflowConditionFailed if
\* the current-execution row names another run than expected; else
\* ConditionFailed for next_event_id if the row of the target run has
\* another next_event_id; else the catch-all ConditionFailed.
C8_FixedPriority ==
    UpdateFailureClassified =>
        last.res =
            IF \E row \in RowsOf(last.rows) :
                   row.type = rowTypeShard /\ row.range_id # last.requestRangeID
            THEN ShardOwnershipLostError
            ELSE IF \E row \in RowsOf(last.rows) :
                        /\ row.type = rowTypeExecution
                        /\ row.run_id = permanentRunID
                        /\ row.current_run_id # last.requestConditionalRunID
            THEN CurrentWorkflowConditionFailedError
            ELSE IF \E row \in RowsOf(last.rows) :
                        /\ row.type = rowTypeExecution
                        /\ row.run_id = last.requestRunID
                        /\ row.next_event_id # last.requestCondition
            THEN ConditionFailedError("nextEventID")
            ELSE ConditionFailedError("columns")

\* The shard row with another range_id comes last, after a
\* current-execution row that names another run and the row of the target
\* run with another next_event_id.
C8_Witness ==
    /\ UpdateFailureClassified
    /\ Len(last.rows) = 3
    /\ last.rows[1].run_id = permanentRunID
    /\ last.rows[1].current_run_id # last.requestConditionalRunID
    /\ last.rows[2].run_id = last.requestRunID
    /\ last.rows[2].next_event_id # last.requestCondition
    /\ last.rows[3].type = rowTypeShard
    /\ last.rows[3].range_id # last.requestRangeID
    /\ last.res = ShardOwnershipLostError

-----------------------------------------------------------------------------
(* Deletes and completions on the shard's partition *)

TaskIDs == 1..2

DeleteWorkflowExecutionRequests == [RunID : SpecRunIDs]

CompleteTransferTaskRequests == [TaskID : TaskIDs]

RangeCompleteTransferTaskRequests ==
    [ExclusiveBeginTaskID : 0..1, InclusiveEndTaskID : TaskIDs]

CompleteTimerTaskRequests == [VisibilityTimestamp : 1..2, TaskID : TaskIDs]

RangeCompleteTimerTaskRequests ==
    [InclusiveBeginTimestamp : 1..2, ExclusiveEndTimestamp : 2..3]

\* The store starts with the shard row and one workflow; UpdateShard moves
\* the range_id away from the callers that hold the old one, creates add
\* runs and tasks, and the deletes and completions take them away.
InitCleanup ==
    /\ executions = TableWithWorkflow
    /\ tasksTable = EmptyTasksTable
    /\ applied = [op |-> "CreateWorkflowExecution", request |-> FirstStartRequest]
    /\ pending = Null
    /\ granted = {}
    /\ last = Null
    /\ calls = 0

NextCleanup ==
    \/ \E request \in UpdateShardRequests : UpdateShard(request)
    \/ \E request \in CreateRequests : CreateWorkflowExecution(request)
    \/ \E request \in DeleteWorkflowExecutionRequests, g \in RangeIDs :
           DeleteWorkflowExecution(request, g)
    \/ \E request \in DeleteWorkflowExecutionRequests, g \in RangeIDs :
           DeleteCurrentWorkflowExecution(request, g)
    \/ \E request \in CompleteTransferTaskRequests, g \in RangeIDs :
           CompleteTransferTask(request, g)
    \/ \E request \in RangeCompleteTransferTaskRequests, g \in RangeIDs :
           RangeCompleteTransferTask(request, g)
    \/ \E request \in CompleteTransferTaskRequests, g \in RangeIDs :
           CompleteReplicationTask(request, g)
    \/ \E request \in CompleteTimerTaskRequests, g \in RangeIDs :
           CompleteTimerTask(request, g)
    \/ \E request \in RangeCompleteTimerTaskRequests, g \in RangeIDs :
           RangeCompleteTimerTask(request, g)
    \/ Return

SpecCleanup == InitCleanup /\ [][NextCleanup]_vars

ExecOperations ==
    {"DeleteWorkflowExecution", "DeleteCurrentWorkflowExecution", "CompleteTransferTask",
     "RangeCompleteTransferTask", "CompleteReplicationTask", "CompleteTimerTask",
     "RangeCompleteTimerTask"}

\* The range_id the caller of the finished call holds.
HeldRangeID ==
    IF last.op \in ExecOperations THEN last.callerRangeID ELSE last.request.RangeID

\* C19 as stated: once the stored range_id differs from the one a caller
\* holds, no create, update, reset or delete of executions and no completion
\* or range completion of transfer, timer and replication tasks by that
\* caller changes a stored row.
C19_EveryWriteFenced ==
    (/\ last # Null
     /\ last.op \in BatchOperations \cup ExecOperations
     /\ last.pre.shard # Null
     /\ last.pre.shard.range_id # HeldRangeID) =>
        executions = last.pre

-----------------------------------------------------------------------------
(* The tasks table of one task list *)

TaskListKinds == {TaskListKindNormal, TaskListKindSticky}

TaskListInfos == [RangeID : RangeIDs, AckLevel : 0..1, Kind : TaskListKinds]

\* A RangeID of 0 asks for the lease whatever the stored range_id is.
LeaseTaskListRequests ==
    [TaskList : {"", "tl"}, TaskListKind : TaskListKinds, RangeID : 0..MaxRangeID]

UpdateTaskListRequests == [TaskListInfo : TaskListInfos]

DeleteTaskListRequests == [RangeID : RangeIDs]

\* The tasks of a CreateTasks request: distinct task ids, with or without
\* a ScheduleToStartTimeout.
TaskBatches ==
    {T \in SUBSET [TaskID : TaskIDs, ScheduleToStartTimeout : 0..1] :
        \A a, b \in T : a.TaskID = b.TaskID => a = b}

CreateTasksRequests == [TaskListInfo : TaskListInfos, Tasks : TaskBatches]

CompleteTaskRequests == [TaskList : TaskListInfos, TaskID : TaskIDs]

CompleteTasksLessThanRequests == [TaskID : TaskIDs]

\* The tables the model starts from: no row at all, the row a first
\* LeaseTaskList inserts, and that row with the tasks of a CreateTasks.
TasksTableLeased ==
    MapScanCAS(EmptyTasksTable,
               templateInsertTaskListQuery(initialRangeID, 0, TaskListKindNormal)).db

FirstCreateTasksRequest ==
    [TaskListInfo |-> [RangeID |-> initialRangeID, AckLevel |-> 0, Kind |-> TaskListKindNormal],
     Tasks        |-> {[TaskID |-> 1, ScheduleToStartTimeout |-> 0],
                       [TaskID |-> 2, ScheduleToStartTimeout |-> 1]}]

TasksTableWithTasks ==
    MapExecuteBatchCAS(TasksTableLeased, CreateTasksBatch(FirstCreateTasksRequest)).db

InitTaskList ==
    /\ executions = EmptyTable
    /\ tasksTable \in {EmptyTasksTable, TasksTableLeased, TasksTableWithTasks}
    /\ pending = Null
    /\ applied = Null
    /\ granted = IF tasksTable = EmptyTasksTable THEN {} ELSE {initialRangeID}
    /\ last = Null
    /\ calls = 0

NextTaskList ==
    \/ \E request \in LeaseTaskListRequests : LeaseTaskListRead(request)
    \/ \E i \in 1..MaxCalls : LeaseTaskListWrite(i)
    \/ \E request \in UpdateTaskListRequests : UpdateTaskList(request)
    \/ \E request \in DeleteTaskListRequests : DeleteTaskList(request)
    \/ \E request \in CreateTasksRequests : CreateTasks(request)
    \/ \E request \in CompleteTaskRequests : CompleteTask(request)
    \/ \E request \in CompleteTasksLessThanRequests, g \in RangeIDs :
           CompleteTasksLessThan(request, g)
    \/ ExpireRow
    \/ Return

SpecTaskList == InitTaskList /\ [][NextTaskList]_vars

TaskListWrites ==
    {"CreateTasks", "UpdateTaskList", "DeleteTaskList", "CompleteTask", "CompleteTasksLessThan"}

\* The finished call wrote to the tasks table while the row of the task
\* list held another range_id than the one the caller presented (or, for
\* CompleteTasksLessThan, holds).
StaleTaskListWrite ==
    /\ last # Null
    /\ last.op \in TaskListWrites
    /\ last.pre.list # Null
    /\ last.pre.list.range_id # last.callerRangeID

\* C20 as stated: CreateTasks, UpdateTaskList of any kind, DeleteTaskList,
\* CompleteTask and CompleteTasksLessThan change no stored row when the
\* range_id presented differs from the one stored in the row of the task
\* list.
C20_EveryTaskListWriteFenced ==
    StaleTaskListWrite => tasksTable = last.pre

\* C20: with another range_id stored than presented, CreateTasks,
\* DeleteTaskList and UpdateTaskList of a list that is not Sticky fail with
\* ConditionFailed and change no stored row.  UpdateTaskList of a Sticky
\* list replaces the row of the task list, range_id included, by the
\* values of the request; CompleteTask deletes the task of the given id
\* and CompleteTasksLessThan the tasks up to the given id, and both leave
\* the row of the task list as it is.
C20_TaskListWritesFencedByStatement ==
    StaleTaskListWrite =>
        CASE last.op \in {"CreateTasks", "DeleteTaskList"} ->
                /\ last.res.err = "ConditionFailed"
                /\ tasksTable = last.pre
          [] last.op = "UpdateTaskList" ->
                IF last.request.TaskListInfo.Kind = TaskListKindSticky
                THEN /\ last.res = NoError
                     /\ tasksTable.list =
                            TaskListRow(last.request.TaskListInfo.RangeID,
                                        last.request.TaskListInfo.AckLevel,
                                        TaskListKindSticky, TRUE)
                     /\ tasksTable.rows = last.pre.rows
                ELSE /\ last.res.err = "ConditionFailed"
                     /\ tasksTable = last.pre
          [] last.op = "CompleteTask" ->
                /\ last.res = NoError
                /\ tasksTable.list = last.pre.list
                /\ tasksTable.rows =
                       {t \in last.pre.rows : t.task_id # last.request.TaskID}
          [] last.op = "CompleteTasksLessThan" ->
                /\ last.res = NoError
                /\ tasksTable.list = last.pre.list
                /\ tasksTable.rows =
                       {t \in last.pre.rows : t.task_id > last.request.TaskID}

\* A CreateTasks with tasks, rejected because the stored range_id is not
\* the one of the request.
C20_Witness ==
    /\ StaleTaskListWrite
    /\ last.op = "CreateTasks"
    /\ last.request.Tasks # {}
    /\ \E t \in last.request.Tasks : \A row \in last.pre.rows : row.task_id # t.TaskID
    /\ last.res.err = "ConditionFailed"
    /\ tasksTable = last.pre

-----------------------------------------------------------------------------
(* LeaseTaskList *)

\* A LeaseTaskList call on a named task list has finished.
LeaseTaskListFinished ==
    /\ last # Null
    /\ last.op = "LeaseTaskList"
    /\ last.request.TaskList # ""

\* The row of the task list was, when the call wrote (or gave up), as the
\* call had read it.
LeaseTaskListRowAsRead ==
    /\ LeaseTaskListFinished
    /\ last.read = LeaseTaskListScan(last.request, last.pre)

\* C21: a LeaseTaskList call that meets the row as it read it inserts,
\* when there is no row, the row with range_id 1, ack level 0 and the kind
\* of the request and returns range_id 1; on a row with range_id r it
\* fails with ConditionFailed and writes nothing when the RangeID of the
\* request is above 0 and not r, and otherwise sets range_id to r + 1,
\* keeps ack level and kind of the row and returns r + 1 with the ack
\* level of the row.  The tasks of the list stay as they are.
C21_LeaseTaskList ==
    LeaseTaskListRowAsRead =>
        IF last.pre.list = Null
        THEN /\ last.res = NoError
             /\ tasksTable.list = TaskListRow(1, 0, last.request.TaskListKind, FALSE)
             /\ tasksTable.rows = last.pre.rows
             /\ last.response.RangeID = 1
             /\ last.response.AckLevel = 0
        ELSE IF last.request.RangeID > 0 /\ last.request.RangeID # last.pre.list.range_id
        THEN /\ last.res.err = "ConditionFailed"
             /\ tasksTable = last.pre
        ELSE /\ last.res = NoError
             /\ tasksTable.list.range_id = last.pre.list.range_id + 1
             /\ tasksTable.list.task_list = last.pre.list.task_list
             /\ tasksTable.rows = last.pre.rows
             /\ last.response.RangeID = last.pre.list.range_id + 1
             /\ last.response.AckLevel = last.pre.list.task_list.ack_level

\* A lease taken over (RangeID 0) from a row with an ack level above 0
\* and tasks in the list.
C21_Witness ==
    /\ LeaseTaskListRowAsRead
    /\ last.request.RangeID = 0
    /\ last.pre.list # Null
    /\ last.pre.list.task_list.ack_level > 0
    /\ last.res = NoError
    /\ last.response.RangeID = last.pre.list.range_id + 1
    /\ tasksTable.list.range_id = last.response.RangeID

-----------------------------------------------------------------------------
(* LeaseTaskList calls racing one another *)

InitLease ==
    /\ executions = EmptyTable
    /\ tasksTable \in {EmptyTasksTable, TasksTableLeased, TasksTableWithTasks}
    /\ pending = Null
    /\ applied = Null
    /\ granted = IF tasksTable = EmptyTasksTable THEN {} ELSE {initialRangeID}
    /\ last = Null
    /\ calls = 0

\* Any number of LeaseTaskList calls at a time, each between its read and
\* its write while the others read and write.
NextLease ==
    \/ \E request \in LeaseTaskListRequests : LeaseTaskListRead(request)
    \/ \E i \in 1..MaxCalls : LeaseTaskListWrite(i)
    \/ Return

SpecLease == InitLease /\ [][NextLease]_vars

\* Two reads of the row of the task list that saw the same: no row, or the
\* same range_id.
SameLeaseRead(a, b) ==
    /\ a.found = b.found
    /\ a.rangeID = b.rangeID

\* A LeaseTaskList call has finished after a LeaseTaskList call that was
\* applied.
LeaseAfterLease ==
    /\ LeaseTaskListFinished
    /\ last.preApplied # Null
    /\ last.preApplied.op = "LeaseTaskList"

\* C22: of the LeaseTaskList calls that read the same of the row of the
\* task list, the one that writes after another of them was applied
\* fails with ConditionFailed and writes nothing; and an applied
\* LeaseTaskList call returns a range_id that no LeaseTaskList call has
\* returned before, so no two calls receive the same range_id.
C22_LeaseRace ==
    LeaseTaskListFinished =>
        /\ (LeaseAfterLease /\ SameLeaseRead(last.read, last.preApplied.read)) =>
               /\ last.res.err = "ConditionFailed"
               /\ tasksTable = last.pre
        /\ last.res = NoError => last.response.RangeID \notin last.preGranted

\* Two calls found no row; the first inserted it, the second was refused.
C22_Witness ==
    /\ LeaseAfterLease
    /\ ~last.read.found
    /\ ~last.preApplied.read.found
    /\ last.preApplied.response.RangeID = 1
    /\ last.res.err = "ConditionFailed"
    /\ last.pre.list # Null
    /\ tasksTable = last.pre

-----------------------------------------------------------------------------
(* The range_id of the task list over time *)

\* The step is an UpdateTaskList call for a sticky task list.
StickyUpdateStep ==
    /\ last' # Null
    /\ last'.op = "UpdateTaskList"
    /\ last'.request.TaskListInfo.Kind = TaskListKindSticky

\* C23 as stated, first half: no step lowers the range_id of the row of
\* the task list.
RangeIDOfTaskListKept ==
    (tasksTable.list # Null /\ tasksTable'.list # Null) =>
        tasksTable'.list.range_id >= tasksTable.list.range_id

\* C23 as stated, second half: LeaseTaskList returns no range_id that a
\* LeaseTaskList call returned before.
LeaseTaskListReturnsNewRangeID ==
    (LeaseTaskListFinished /\ last.res = NoError) =>
        last.response.RangeID \notin last.preGranted

\* C23 as stated: over LeaseTaskList, UpdateTaskList of any kind,
\* CreateTasks, DeleteTaskList and the expiry of rows, the range_id of the
\* task list never decreases and LeaseTaskList never returns the same
\* range_id twice.
C23_RangeIDNeverReused ==
    [][RangeIDOfTaskListKept]_vars /\ []LeaseTaskListReturnsNewRangeID

\* What a step does to the range_id of the task list.
RangeIDOfTaskListStep ==
    LET before == tasksTable.list
        after  == tasksTable'.list
    IN  /\ (before # Null /\ after # Null /\ after.range_id # before.range_id) =>
               /\ last' # Null
               /\ IF last'.op = "LeaseTaskList"
                  THEN after.range_id = before.range_id + 1
                  ELSE /\ StickyUpdateStep
                       /\ after.range_id = last'.request.TaskListInfo.RangeID
        /\ (before # Null /\ after = Null) =>
               IF last' = Null
               THEN before.expires
               ELSE last'.op = "DeleteTaskList" /\ last'.res = NoError
        /\ (before = Null /\ after # Null) =>
               /\ last' # Null
               /\ IF last'.op = "LeaseTaskList"
                  THEN after.range_id = 1
                  ELSE /\ StickyUpdateStep
                       /\ after.range_id = last'.request.TaskListInfo.RangeID

\* C23: the range_id of the row of the task list changes by LeaseTaskList,
\* which adds one, and by UpdateTaskList for a sticky task list, which
\* sets it to the RangeID of the request, lower ones included; the row
\* goes away by DeleteTaskList and, written for a sticky task list, by
\* expiry, and the LeaseTaskList or sticky UpdateTaskList that writes it
\* anew starts from range_id 1 or from the RangeID of the request.
C23_RangeIDSteps ==
    [][RangeIDOfTaskListStep]_vars

\* LeaseTaskList has returned a range_id that it had returned before.
C23_Witness ==
    /\ LeaseTaskListFinished
    /\ last.res = NoError
    /\ last.response.RangeID \in last.preGranted
    /\ tasksTable.list.range_id = last.response.RangeID

-----------------------------------------------------------------------------
(* CreateTasks *)

CreateTasksFinished ==
    /\ last # Null
    /\ last.op = "CreateTasks"

\* C24: CreateTasks inserts the rows of all the tasks of the request, the
\* ones with a ScheduleToStartTimeout with a TTL, and leaves the other
\* task rows alone, if the row of the task list has the RangeID of the
\* request as its range_id; with another range_id, or without a row of the
\* task list, it returns ConditionFailed and the table is as before.
C24_CreateTasksAllOrNone ==
    CreateTasksFinished =>
        IF /\ last.pre.list # Null
           /\ last.pre.list.range_id = last.request.TaskListInfo.RangeID
        THEN /\ last.res = NoError
             /\ \A t \in last.request.Tasks :
                    TaskRow(t.TaskID, t.ScheduleToStartTimeout > 0) \in tasksTable.rows
             /\ \A row \in tasksTable.rows :
                    \/ row \in last.pre.rows
                    \/ \E t \in last.request.Tasks : t.TaskID = row.task_id
             /\ \A row \in last.pre.rows :
                    \/ row \in tasksTable.rows
                    \/ \E t \in last.request.Tasks : t.TaskID = row.task_id
             /\ tasksTable.list.range_id = last.pre.list.range_id
        ELSE /\ last.res.err = "ConditionFailed"
             /\ tasksTable = last.pre

\* Two tasks inserted into a list that held neither.
C24_Witness ==
    /\ CreateTasksFinished
    /\ last.res = NoError
    /\ Cardinality(last.request.Tasks) = 2
    /\ last.pre.rows = {}
    /\ Cardinality(tasksTable.rows) = 2

-----------------------------------------------------------------------------
(* GetTasks *)

ReadTaskIDs == 1..MaxTasks

\* The task list after a lease and CreateTasks calls: any of the tasks.
TasksTablesToRead ==
    {[TasksTableLeased EXCEPT !.rows = {TaskRow(i, FALSE) : i \in S}] : S \in SUBSET ReadTaskIDs}

\* Requests of GetTasks, without a MaxReadLevel too.
GetTasksRequests ==
    {[ReadLevel |-> r, MaxReadLevel |-> <<m>>, BatchSize |-> b] :
        <<r, m, b>> \in (0..MaxTasks) \X (0..MaxTasks) \X (0..MaxTasks)}
    \cup
    {[ReadLevel |-> 0, MaxReadLevel |-> Null, BatchSize |-> MaxTasks]}

CompleteTaskToReadRequests ==
    [TaskList : {[RangeID |-> initialRangeID, AckLevel |-> 0, Kind |-> TaskListKindNormal]},
     TaskID   : ReadTaskIDs]

InitGetTasks ==
    /\ executions = EmptyTable
    /\ tasksTable \in TasksTablesToRead
    /\ pending = Null
    /\ applied = Null
    /\ granted = {initialRangeID}
    /\ last = Null
    /\ calls = 0

NextGetTasks ==
    \/ \E request \in GetTasksRequests : GetTasks(request)
    \/ \E request \in CompleteTaskToReadRequests : CompleteTask(request)
    \/ Return

SpecGetTasks == InitGetTasks /\ [][NextGetTasks]_vars

GetTasksFinished ==
    /\ last # Null
    /\ last.op = "GetTasks"
    /\ last.request.MaxReadLevel # Null

\* The ids of the stored tasks above ReadLevel and up to MaxReadLevel.
TaskIDsToRead ==
    {t.task_id : t \in {row \in last.pre.rows :
                            /\ row.task_id > last.request.ReadLevel
                            /\ row.task_id <= last.request.MaxReadLevel[1]}}

\* C25: GetTasks returns without error, in ascending order of task id,
\* stored tasks with ReadLevel < task id <= MaxReadLevel: all of them if
\* they are no more than BatchSize, else the BatchSize lowest; so never
\* more than BatchSize, and none when ReadLevel is above MaxReadLevel.
C25_GetTasksUpToBatchSize ==
    GetTasksFinished =>
        LET tasks == last.response.Tasks
            n     == Len(tasks)
        IN  /\ last.res = NoError
            /\ \A i \in 1..n : tasks[i].TaskID \in TaskIDsToRead
            /\ \A i, j \in 1..n : i < j => tasks[i].TaskID < tasks[j].TaskID
            /\ \A id \in TaskIDsToRead :
                   (\E i \in 1..n : tasks[i].TaskID = id)
                       \/ (\A i \in 1..n : tasks[i].TaskID < id)
            /\ n <= last.request.BatchSize
            /\ n = last.request.BatchSize \/ n = Cardinality(TaskIDsToRead)
            /\ last.request.ReadLevel > last.request.MaxReadLevel[1] => n = 0

-----------------------------------------------------------------------------
(* Completions, repeated *)

InitCompletion ==
    /\ executions = TableWithWorkflow
    /\ tasksTable = TasksTableWithTasks
    /\ pending = Null
    /\ applied = Null
    /\ granted = {initialRangeID}
    /\ last = Null
    /\ calls = 0

NextCompletion ==
    \/ \E request \in CompleteTransferTaskRequests, g \in RangeIDs :
           CompleteTransferTask(request, g)
    \/ \E request \in RangeCompleteTransferTaskRequests, g \in RangeIDs :
           RangeCompleteTransferTask(request, g)
    \/ \E request \in CompleteTransferTaskRequests, g \in RangeIDs :
           CompleteReplicationTask(request, g)
    \/ \E request \in CompleteTimerTaskRequests, g \in RangeIDs :
           CompleteTimerTask(request, g)
    \/ \E request \in RangeCompleteTimerTaskRequests, g \in RangeIDs :
           RangeCompleteTimerTask(request, g)
    \/ \E request \in CompleteTaskRequests : CompleteTask(request)
    \/ \E request \in CompleteTasksLessThanRequests, g \in RangeIDs :
           CompleteTasksLessThan(request, g)
    \/ Return

SpecCompletion == InitCompletion /\ [][NextCompletion]_vars

TaskListCompletions == {"CompleteTask", "CompleteTasksLessThan"}

CompletionOperations ==
    {"CompleteTransferTask", "RangeCompleteTransferTask", "CompleteReplicationTask",
     "CompleteTimerTask", "RangeCompleteTimerTask"} \cup TaskListCompletions

CompletionFinished ==
    /\ last # Null
    /\ last.op \in CompletionOperations

\* The table the finished completion works on did not change.
CompletionChangedNothing ==
    last.pre = IF last.op \in TaskListCompletions THEN tasksTable ELSE executions

\* The task id, or the range, of the finished completion held no task.
NothingToComplete ==
    LET request == last.request
    IN  CASE last.op = "CompleteTransferTask" ->
                 \A t \in last.pre.transfer : t.task_id # request.TaskID
          [] last.op = "CompleteReplicationTask" ->
                 \A t \in last.pre.replication : t.task_id # request.TaskID
          [] last.op = "CompleteTimerTask" ->
                 \A t \in last.pre.timer :
                     ~(t.visibility_ts = request.VisibilityTimestamp
                         /\ t.task_id = request.TaskID)
          [] last.op = "RangeCompleteTransferTask" ->
                 \A t \in last.pre.transfer :
                     ~(t.task_id > request.ExclusiveBeginTaskID
                         /\ t.task_id <= request.InclusiveEndTaskID)
          [] last.op = "RangeCompleteTimerTask" ->
                 \A t \in last.pre.timer :
                     ~(t.visibility_ts >= request.InclusiveBeginTimestamp
                         /\ t.visibility_ts < request.ExclusiveEndTimestamp)
          [] last.op = "CompleteTask" ->
                 \A t \in last.pre.rows : t.task_id # request.TaskID
          [] last.op = "CompleteTasksLessThan" ->
                 \A t \in last.pre.rows : t.task_id > request.TaskID

\* The finished completion repeats the call applied before it.
CompletionRepeated ==
    /\ last.preApplied # Null
    /\ last.preApplied.op = last.op
    /\ last.preApplied.request = last.request

\* C26: every completion returns without error; on a task id or a range
\* that holds no task it changes nothing, and so does the completion that
\* repeats the one before it.
C26_CompletionIdempotent ==
    CompletionFinished =>
        /\ last.res = NoError
        /\ NothingToComplete => CompletionChangedNothing
        /\ CompletionRepeated => CompletionChangedNothing

\* The transfer task 1 completed a second time.
C26_Witness ==
    /\ CompletionFinished
    /\ last.op = "CompleteTransferTask"
    /\ last.request.TaskID = 1
    /\ CompletionRepeated
    /\ \E t \in TableWithWorkflow.transfer : t.task_id = 1
    /\ NothingToComplete
    /\ last.res = NoError
    /\ executions = last.pre

-----------------------------------------------------------------------------
(* The queues of the shard: reads and completions *)

QueueTaskIDs == 1..MaxTasks

\* The timer task i is due at the timestamp i; transfer and replication
\* tasks carry the same ids.
QueueTasks == {[TaskID |-> i, VisibilityTimestamp |-> i] : i \in QueueTaskIDs}

\* The table after the workflow has been given the tasks of QueueTasks in
\* each of its three queues.
TableWithQueues ==
    ApplyBatch(TableWithWorkflow,
               createTimerTasks(
                   createReplicationTasks(
                       createTransferTasks(<<>>, QueueTasks, "r1"),
                       QueueTasks, "r1"),
                   QueueTasks, "r1"))

ReadLevelRequests ==
    [ReadLevel : 0..1, MaxReadLevel : (MaxTasks - 1)..MaxTasks, BatchSize : {MaxTasks},
     NextPageToken : {Null}]

TaskIDRequests == [TaskID : QueueTaskIDs]

TaskIDRangeRequests ==
    [ExclusiveBeginTaskID : 0..1, InclusiveEndTaskID : (MaxTasks - 1)..MaxTasks]

TimerTaskRequests ==
    {[VisibilityTimestamp |-> i, TaskID |-> i] : i \in QueueTaskIDs}

TimestampRangeRequests ==
    [InclusiveBeginTimestamp : 1..2, ExclusiveEndTimestamp : (MaxTasks - 1)..MaxTasks]

GetTimerIndexTasksRequests ==
    [MinTimestamp : 0..1, MaxTimestamp : MaxTasks..(MaxTasks + 1), BatchSize : {MaxTasks},
     NextPageToken : {Null}]

InitQueues ==
    /\ executions = TableWithQueues
    /\ tasksTable = EmptyTasksTable
    /\ pending = Null
    /\ applied = Null
    /\ granted = {}
    /\ last = Null
    /\ calls = 0

NextQueues ==
    \/ \E request \in ReadLevelRequests : GetTransferTasks(request)
    \/ \E request \in ReadLevelRequests : GetReplicationTasks(request)
    \/ \E request \in GetTimerIndexTasksRequests : GetTimerIndexTasks(request)
    \/ \E request \in TaskIDRequests : CompleteTransferTask(request, 1)
    \/ \E request \in TaskIDRangeRequests : RangeCompleteTransferTask(request, 1)
    \/ \E request \in TaskIDRequests : CompleteReplicationTask(request, 1)
    \/ \E request \in TimerTaskRequests : CompleteTimerTask(request, 1)
    \/ \E request \in TimestampRangeRequests : RangeCompleteTimerTask(request, 1)
    \/ Return

SpecQueues == InitQueues /\ [][NextQueues]_vars

\* The tasks of a response as a set.
TasksOf(tasks) == {tasks[i] : i \in 1..Len(tasks)}

\* The tasks that the rows of a queue stand for.
TasksOfRows(rows) ==
    {[TaskID |-> t.task_id, VisibilityTimestamp |-> t.visibility_ts] : t \in rows}

TaskIDsOf(tasks) == {tasks[i].TaskID : i \in 1..Len(tasks)}

TaskIDsToReadOf(rows) ==
    {t.task_id : t \in {row \in rows : /\ row.task_id > last.request.ReadLevel
                                       /\ row.task_id <= last.request.MaxReadLevel}}

\* The queues a completion does not work on.
OtherQueues ==
    CASE last.op \in {"CompleteTransferTask", "RangeCompleteTransferTask"} ->
             {"timer", "replication"}
      [] last.op = "CompleteReplicationTask" -> {"transfer", "timer"}
      [] last.op \in {"CompleteTimerTask", "RangeCompleteTimerTask"} ->
             {"transfer", "replication"}

-----------------------------------------------------------------------------
(* CompleteTasksLessThan *)

CompleteTasksLessThanFinished ==
    /\ last # Null
    /\ last.op = "CompleteTasksLessThan"

\* C29: CompleteTasksLessThan removes the tasks of the list with a task id
\* up to the TaskID of the request, that id included, and no task with a
\* higher id; it leaves the row of the task list as it is; and it returns
\* UnknownNumRowsAffected, which is neither zero nor the number of the
\* tasks removed.
C29_CompleteTasksLessThan ==
    CompleteTasksLessThanFinished =>
        LET removed == {t \in last.pre.rows : t.task_id <= last.request.TaskID}
        IN  /\ last.res = NoError
            /\ tasksTable.rows = last.pre.rows \ removed
            /\ \A t \in last.pre.rows : t.task_id > last.request.TaskID => t \in tasksTable.rows
            /\ tasksTable.list = last.pre.list
            /\ last.response = UnknownNumRowsAffected
            /\ last.response # 0
            /\ last.response # Cardinality(removed)

\* The task at the bound is removed and the task above it stays.
C29_Witness ==
    /\ CompleteTasksLessThanFinished
    /\ \E t \in last.pre.rows : t.task_id = last.request.TaskID
    /\ \E t \in last.pre.rows : t.task_id > last.request.TaskID
    /\ \A t \in tasksTable.rows : t.task_id > last.request.TaskID
    /\ tasksTable.rows # {}
    /\ last.pre.list # Null
    /\ last.response = UnknownNumRowsAffected

-----------------------------------------------------------------------------
(* UpdateTaskList *)

UpdateTaskListFinished ==
    /\ last # Null
    /\ last.op = "UpdateTaskList"

\* C30: UpdateTaskList for a task list that is not sticky writes the ack
\* level and the kind of the request if the row of the task list has the
\* RangeID of the request as its range_id, and otherwise returns
\* ConditionFailed and leaves the table as it is; for a sticky task list
\* it writes the row with the RangeID, the ack level and the kind of the
\* request and a TTL, whatever the range_id of the row is and also when
\* there is no row.  The tasks stay as they are.
C30_UpdateTaskList ==
    UpdateTaskListFinished =>
        LET tli == last.request.TaskListInfo
        IN  IF tli.Kind = TaskListKindSticky
            THEN /\ last.res = NoError
                 /\ tasksTable.list =
                        TaskListRow(tli.RangeID, tli.AckLevel, TaskListKindSticky, TRUE)
                 /\ tasksTable.rows = last.pre.rows
            ELSE IF last.pre.list # Null /\ last.pre.list.range_id = tli.RangeID
            THEN /\ last.res = NoError
                 /\ tasksTable.list.range_id = tli.RangeID
                 /\ tasksTable.list.task_list = [ack_level |-> tli.AckLevel, kind |-> tli.Kind]
                 /\ tasksTable.rows = last.pre.rows
            ELSE /\ last.res.err = "ConditionFailed"
                 /\ tasksTable = last.pre

\* An UpdateTaskList for a sticky task list that had no row.
C30_Witness ==
    /\ UpdateTaskListFinished
    /\ last.request.TaskListInfo.Kind = TaskListKindSticky
    /\ last.pre.list = Null
    /\ last.res = NoError
    /\ tasksTable.list # Null
    /\ tasksTable.list.range_id = last.request.TaskListInfo.RangeID

-----------------------------------------------------------------------------
(* The shard row under the batches of the executions *)

\* The finished call is a create, update or reset of an execution that
\* reached the store with the shard row in place.
BatchOnShardFinished ==
    /\ last # Null
    /\ last.op \in BatchOperations
    /\ last.pre.shard # Null

\* C37: no create, update or reset of an execution changes the shard row:
\* the range_id and the shard columns (owner included) are after the call
\* what they were before it, whether the batch was applied or rejected, and
\* a table without a shard row still has none; the range_id of the shard
\* row differs after a call only when the call is a CreateShard or an
\* UpdateShard.
C37_BatchKeepsShardRow ==
    /\ (last # Null /\ last.op \in BatchOperations) => executions.shard = last.pre.shard
    /\ (last # Null /\ executions.shard # last.pre.shard) =>
           last.op \in {"CreateShard", "UpdateShard"}

\* An applied update issued with the stored range_id: the table changed and
\* the shard row did not.
C37_Witness ==
    /\ BatchOnShardFinished
    /\ last.op = "UpdateWorkflowExecution"
    /\ last.res = NoError
    /\ executions # last.pre
    /\ executions.shard = last.pre.shard
    /\ executions.shard.range_id = last.request.RangeID

-----------------------------------------------------------------------------
(* UpdateWorkflowExecution with a continue-as-new *)

\* The finished call is an update that carries a ContinueAsNew request.
ContinueAsNewFinished ==
    /\ last # Null
    /\ last.op = "UpdateWorkflowExecution"
    /\ last.request.ContinueAsNew # Null

\* The rows of a queue that belong to a run and carry the ids of the tasks.
TasksEnqueued(queue, tasks, runID) ==
    \A t \in tasks : \E row \in queue : row.task_id = t.TaskID /\ row.run_id = runID

\* What an applied continue-as-new leaves apart from the replication tasks
\* of the new run: the old run with the NextEventID and the state of the
\* mutation, the row of the new run, the current-execution row moved from
\* PreviousRunID to the new run, and the transfer and timer tasks of the
\* new run in their queues.
ContinueAsNewApplied ==
    LET startReq == last.request.ContinueAsNew
        info     == last.request.UpdateWorkflowMutation.ExecutionInfo
    IN  /\ last.pre.runs[info.RunID] # Null
        /\ last.pre.runs[info.RunID].next_event_id = last.request.UpdateWorkflowMutation.Condition
        /\ executions.runs[info.RunID].next_event_id = info.NextEventID
        /\ executions.runs[info.RunID].execution.state = info.State
        /\ executions.runs[startReq.RunID] # Null
        /\ executions.runs[startReq.RunID].execution.run_id = startReq.RunID
        /\ executions.runs[startReq.RunID].execution.state = startReq.State
        /\ last.pre.current # Null
        /\ last.pre.current.current_run_id = startReq.PreviousRunID
        /\ executions.current.current_run_id = startReq.RunID
        /\ TasksEnqueued(executions.transfer, startReq.TransferTasks, startReq.RunID)
        /\ TasksEnqueued(executions.timer, startReq.TimerTasks, startReq.RunID)

\* C36 as stated: an update with a continue-as-new that is applied updates
\* the old run, inserts the new run, moves the current-execution row from
\* the previous run to the new run and enqueues the transfer, timer and
\* replication tasks supplied for the new run; a rejected one changes
\* nothing.
C36_ContinueAsNewAtomic ==
    ContinueAsNewFinished =>
        IF last.res = NoError
        THEN /\ ContinueAsNewApplied
             /\ TasksEnqueued(executions.replication,
                              last.request.ContinueAsNew.ReplicationTasks,
                              last.request.ContinueAsNew.RunID)
        ELSE executions = last.pre

-----------------------------------------------------------------------------
(* DeleteCurrentWorkflowExecution *)

DeleteCurrentFinished ==
    /\ last # Null
    /\ last.op = "DeleteCurrentWorkflowExecution"

\* The current-execution row named the run of the request when the delete
\* was executed.
CurrentRowNamedRequestedRun ==
    /\ last.pre.current # Null
    /\ last.pre.current.current_run_id = last.request.RunID

\* C38: DeleteCurrentWorkflowExecution removes the current-execution row
\* only when its current_run_id is the RunID of the request; when the row
\* names another run or does not exist the table is left as it was; in
\* both cases the rows of the runs, the shard row and the queues are kept
\* and the call returns no error, so the result is the same whether the row
\* was removed or not.
C38_DeleteCurrentOnlyOfRun ==
    DeleteCurrentFinished =>
        /\ last.res = NoError
        /\ IF CurrentRowNamedRequestedRun
           THEN executions = [last.pre EXCEPT !.current = Null]
           ELSE executions = last.pre

\* A delete for run r2 while the current-execution row names r1: no error,
\* and the row is still there.
C38_Witness ==
    /\ DeleteCurrentFinished
    /\ last.pre.current # Null
    /\ last.pre.current.current_run_id # last.request.RunID
    /\ last.res = NoError
    /\ executions.current = last.pre.current

-----------------------------------------------------------------------------
(* The current-execution row and the row of the run it names *)

\* C39 as stated: whenever the current-execution row exists, the row of the
\* run it names exists.
C39_PointerNamesStoredRun ==
    executions.current # Null =>
        executions.runs[executions.current.current_run_id] # Null

-----------------------------------------------------------------------------
(* The row of the task list under CreateTasks *)

\* C40 as stated: a CreateTasks that succeeds leaves the range_id, the
\* ack level and the kind stored in the row of the task list as they were,
\* whatever AckLevel and Kind the TaskListInfo of the request carries.
C40_CreateTasksKeepsTaskListRow ==
    (CreateTasksFinished /\ last.res = NoError) =>
        /\ tasksTable.list # Null
        /\ tasksTable.list.range_id = last.pre.list.range_id
        /\ tasksTable.list.task_list.ack_level = last.pre.list.task_list.ack_level
        /\ tasksTable.list.task_list.kind = last.pre.list.task_list.kind

-----------------------------------------------------------------------------
(* Resets of a workflow that has a base run *)

\* The table after run r3 was started, advanced to next_event_id n and
\* continued as the new run r1: r3 is Completed, r1 is the current run.
TableWithBaseRun(n) ==
    LET started == MapExecuteBatchCAS(TableWithShard,
                       CreateWorkflowExecutionBatch(
                           NewRunRequest(CreateWorkflowModeBrandNew, "r3", "r3", EmptyVersion, 1,
                                         WorkflowStateRunning, Null, {})).batch).db
        continued ==
            [RangeID |-> 1,
             UpdateWorkflowMutation |->
                 WorkflowMutation("r3", <<WorkflowStateCompleted, WorkflowCloseStatusCompleted>>,
                                  n, 1, Null, {}),
             ContinueAsNew |->
                 NewRunRequest(CreateWorkflowModeContinueAsNew, "r1", "r3", EmptyVersion, 1,
                               WorkflowStateRunning, Null, {})]
    IN  MapExecuteBatchCAS(started, UpdateWorkflowExecutionBatch(continued).batch).db

\* The store starts with the shard row, the base run r3 and the current
\* run r1.  Resets fork from r3 or from the current run; deletes of runs,
\* updates of the current run and UpdateShard run in between.
InitReset ==
    /\ \E n \in EventIDs : executions = TableWithBaseRun(n)
    /\ tasksTable = EmptyTasksTable
    /\ applied = Null
    /\ pending = Null
    /\ granted = {}
    /\ last = Null
    /\ calls = 0

NextReset ==
    \/ \E request \in ResetRequests : ResetWorkflowExecution(request)
    \/ \E request \in ResetMutableStateRequests : ResetMutableState(request)
    \/ \E request \in UpdateRequests : UpdateWorkflowExecution(request)
    \/ \E request \in UpdateShardRequests : UpdateShard(request)
    \/ \E r \in RunIDs, g \in RangeIDs : DeleteWorkflowExecution([RunID |-> r], g)
    \/ Return

SpecReset == InitReset /\ [][NextReset]_vars

\* The finished call is a ResetWorkflowExecution that forks from a base run
\* other than the current run of the request.
ResetFromBaseRunFinished ==
    /\ last # Null
    /\ last.op = "ResetWorkflowExecution"
    /\ last.request.BaseRunID # last.request.CurrExecutionInfo.RunID

\* The row of the base run was there, with BaseRunNextEventID as its
\* next_event_id, when the batch was executed.
BaseRunAsExpected ==
    /\ last.pre.runs[last.request.BaseRunID] # Null
    /\ last.pre.runs[last.request.BaseRunID].next_event_id = last.request.BaseRunNextEventID

\* The rejected batch met the range_id and the current run the request
\* names, so that neither ShardOwnershipLost nor
\* CurrentWorkflowConditionFailed takes precedence.
ResetMetShardAndCurrentRun ==
    /\ last.pre.shard # Null
    /\ last.pre.shard.range_id = last.request.RangeID
    /\ last.pre.current # Null
    /\ last.pre.current.current_run_id = last.request.CurrExecutionInfo.RunID

\* C34 as stated: such a reset is applied only if the row of the base run
\* exists with next_event_id = BaseRunNextEventID; when the base run was
\* deleted or advanced the call fails with ConditionFailed, the new run is
\* not written and the current-execution row is unchanged.
C34_ResetFailsWithConditionFailed ==
    ResetFromBaseRunFinished =>
        /\ last.res = NoError => BaseRunAsExpected
        /\ ~BaseRunAsExpected =>
               /\ last.res.err = "ConditionFailed"
               /\ executions = last.pre

\* C34: a ResetWorkflowExecution that forks from a base run other than the
\* current run is applied only if the row of the base run exists with
\* next_event_id = BaseRunNextEventID when the batch is executed; when the
\* base run was deleted or has another next_event_id the call fails and
\* the table is unchanged (no new run, the same current-execution row),
\* and the error is ConditionFailed when the caller holds the range_id and
\* the current-execution row names the current run of the request.
C34_ResetChecksBaseRun ==
    ResetFromBaseRunFinished =>
        /\ last.res = NoError => BaseRunAsExpected
        /\ ~BaseRunAsExpected =>
               /\ last.res # NoError
               /\ executions = last.pre
               /\ ResetMetShardAndCurrentRun => last.res.err = "ConditionFailed"

\* A reset from base run r3 after r3 was deleted, every other condition of
\* the batch met: ConditionFailed, and the new run is not written.
C34_Witness ==
    /\ ResetFromBaseRunFinished
    /\ last.request.BaseRunID = "r3"
    /\ last.pre.runs["r3"] = Null
    /\ last.preApplied = [op |-> "DeleteWorkflowExecution", request |-> [RunID |-> "r3"]]
    /\ ResetMetShardAndCurrentRun
    /\ last.pre.runs[last.request.CurrExecutionInfo.RunID].next_event_id = last.request.Condition
    /\ last.res.err = "ConditionFailed"
    /\ executions.runs[last.request.NewWorkflowSnapshot.ExecutionInfo.RunID] = Null
    /\ executions.current = last.pre.current

-----------------------------------------------------------------------------
(* The current-execution row under the resets *)

ResetFinished ==
    /\ last # Null
    /\ last.op \in {"ResetWorkflowExecution", "ResetMutableState"}

\* The run the reset expects the current-execution row to name, and the
\* run it writes.
ResetExpectedRunID ==
    IF last.op = "ResetWorkflowExecution"
    THEN last.request.CurrExecutionInfo.RunID
    ELSE last.request.PrevRunID

ResetWrittenRunID ==
    IF last.op = "ResetWorkflowExecution"
    THEN last.request.NewWorkflowSnapshot.ExecutionInfo.RunID
    ELSE last.request.ResetWorkflowSnapshot.ExecutionInfo.RunID

\* C35: ResetWorkflowExecution and ResetMutableState are applied only if
\* the current-execution row names the run the caller expects (the current
\* run of the request, PrevRunID), and ResetWorkflowExecution only if the
\* row of the current run has Condition as its next_event_id; an applied
\* reset leaves the current-execution row naming the run it wrote, whose
\* row carries the state of the snapshot; a rejected reset leaves the
\* whole table, the current-execution row and the rows of both runs
\* included, as it was.
C35_ResetRequiresCurrentRun ==
    ResetFinished =>
        IF last.res = NoError
        THEN /\ last.pre.current # Null
             /\ last.pre.current.current_run_id = ResetExpectedRunID
             /\ last.op = "ResetWorkflowExecution" =>
                    /\ last.pre.runs[ResetExpectedRunID] # Null
                    /\ last.pre.runs[ResetExpectedRunID].next_event_id = last.request.Condition
             /\ executions.current.current_run_id = ResetWrittenRunID
             /\ executions.runs[ResetWrittenRunID] # Null
             /\ executions.runs[ResetWrittenRunID].execution.run_id = ResetWrittenRunID
        ELSE executions = last.pre

\* An applied ResetWorkflowExecution that moved the current-execution row
\* from the current run r1 to the new run r2.
C35_Witness ==
    /\ ResetFinished
    /\ last.op = "ResetWorkflowExecution"
    /\ last.res = NoError
    /\ last.pre.current.current_run_id = "r1"
    /\ last.pre.runs["r2"] = Null
    /\ executions.current.current_run_id = "r2"
    /\ executions.runs["r2"] # Null

-----------------------------------------------------------------------------
(* Replication state and version histories of a run *)

\* createReplicationState: nil for a row without the replication_state
\* column, else the ReplicationState with the versions of the column.
createReplicationState(result) ==
    IF result = Null THEN Null
    ELSE [StartVersion     |-> result.start_version,
          LastWriteVersion |-> result.last_write_version]

\* NewDataBlob: nil for a row without the version_histories column, else
\* the blob with the data of the column.
NewDataBlob(data) ==
    IF data = Null THEN Null ELSE [Data |-> data.Data]

\* GetWorkflowExecution: the read of the row of a run.  No row is
\* EntityNotExistsError; a row with both the replication state and the
\* version histories is InternalServiceError.
GetWorkflowExecution(request) ==
    /\ Idle
    /\ LET result == executions.runs[request.RunID]
           state  == [ExecutionInfo    |-> result.execution,
                      ReplicationState |-> createReplicationState(result.replication_state),
                      VersionHistories |-> NewDataBlob(result.version_histories)]
           res    == IF result = Null THEN EntityNotExistsError
                     ELSE IF state.VersionHistories # Null /\ state.ReplicationState # Null
                     THEN InternalServiceError
                     ELSE NoError
       IN  last' = [op |-> "GetWorkflowExecution", request |-> request, res |-> res,
                    response |-> IF res = NoError THEN [State |-> state] ELSE Null,
                    pre |-> executions, preApplied |-> applied]
    /\ calls' = calls + 1
    /\ UNCHANGED <<executions, tasksTable, pending, applied, granted>>

\* The version histories a request carries: none, or one blob.
VersionHistoriesBlobs == {Null, [Data |-> "histories"]}

\* The requests of the creates, updates and resets issued with the range_id
\* of the shard, each with a replication state, version histories, both or
\* neither.
CreateRequestsWithHistories ==
    {[request EXCEPT !.VersionHistories = vh] :
        request \in {c \in CreateRequests : c.RangeID = 1}, vh \in VersionHistoriesBlobs}

UpdateRequestsWithHistories ==
    {[request EXCEPT !.UpdateWorkflowMutation.VersionHistories = vh] :
        request \in {u \in UpdateRequests \cup ContinueAsNewRequests : u.RangeID = 1},
        vh \in VersionHistoriesBlobs}

ResetRequestsWithHistories ==
    {[request EXCEPT !.CurrVersionHistories = vh[1],
                     !.NewWorkflowSnapshot.VersionHistories = vh[2]] :
        request \in {r \in ResetRequests : r.RangeID = 1 /\ r.BaseRunID = "r1"},
        vh \in VersionHistoriesBlobs \X VersionHistoriesBlobs}

ResetMutableStateRequestsWithHistories ==
    {[request EXCEPT !.ResetWorkflowSnapshot.VersionHistories = vh] :
        request \in {r \in ResetMutableStateRequests : r.RangeID = 1},
        vh \in VersionHistoriesBlobs}

\* The table with the shard row and the run r1 started with a replication
\* state.
TableWithReplicatedWorkflow ==
    MapExecuteBatchCAS(TableWithShard,
        CreateWorkflowExecutionBatch(
            NewRunRequest(CreateWorkflowModeBrandNew, "r1", "r1", EmptyVersion, 1,
                          WorkflowStateRunning, [StartVersion |-> 1, LastWriteVersion |-> 1],
                          {})).batch).db

InitHistories ==
    /\ executions \in {TableWithShard, TableWithWorkflow, TableWithReplicatedWorkflow}
    /\ tasksTable = EmptyTasksTable
    /\ applied = Null
    /\ pending = Null
    /\ granted = {}
    /\ last = Null
    /\ calls = 0

NextHistories ==
    \/ \E request \in CreateRequestsWithHistories : CreateWorkflowExecution(request)
    \/ \E request \in UpdateRequestsWithHistories : UpdateWorkflowExecution(request)
    \/ \E request \in ResetRequestsWithHistories : ResetWorkflowExecution(request)
    \/ \E request \in ResetMutableStateRequestsWithHistories : ResetMutableState(request)
    \/ \E r \in SpecRunIDs : GetWorkflowExecution([RunID |-> r])
    \/ Return

SpecHistories == InitHistories /\ [][NextHistories]_vars

\* C33 as stated: no stored run has both the replication_state and the
\* version_histories column populated, and GetWorkflowExecution never
\* fails with the InternalServiceError it returns for such a row.
C33_ReplicationStateOrVersionHistories ==
    /\ \A r \in RunIDs :
           executions.runs[r] # Null =>
               ~(/\ executions.runs[r].replication_state # Null
                 /\ executions.runs[r].version_histories # Null)
    /\ (last # Null /\ last.op = "GetWorkflowExecution") => last.res # InternalServiceError

-----------------------------------------------------------------------------
(* Errors of the backend *)

\* The errors the session reports instead of a result: a timeout, after
\* which the write may or may not have been carried out; overloaded, the
\* backend's signal of throttling; unavailable, a refusal that is neither.
BackendErrors == {"timeout", "overloaded", "unavailable"}

isTimeoutError(err) == err = "timeout"

isThrottlingError(err) == err = "overloaded"

\* The error handling of a batch without the test for a timeout.
BatchErrorWithoutTimeout(err) ==
    IF isThrottlingError(err) THEN ServiceBusyError ELSE InternalServiceError

\* The error handling after MapExecuteBatchCAS in CreateWorkflowExecution,
\* UpdateWorkflowExecution, ResetWorkflowExecution and ResetMutableState:
\* TimeoutError for a timeout, else ServiceBusyError for throttling, else
\* InternalServiceError.
BatchError(err) ==
    IF isTimeoutError(err) THEN TimeoutError
    ELSE IF isThrottlingError(err) THEN ServiceBusyError
    ELSE InternalServiceError

\* The error handling of the operations that execute one statement or one
\* point read: ServiceBusyError for throttling, else InternalServiceError.
ExecError(err) ==
    IF isThrottlingError(err) THEN ServiceBusyError ELSE InternalServiceError

\* The error handling after iter.Close in GetTransferTasks,
\* GetReplicationTasks and GetTasks: InternalServiceError whatever the error.
IterCloseError(err) == InternalServiceError

\* The operations that handle an error of the backend as ExecError does.
ExecErrorOperations ==
    {"CreateShard", "GetShard", "UpdateShard", "GetWorkflowExecution",
     "DeleteWorkflowExecution", "DeleteCurrentWorkflowExecution", "GetCurrentExecution",
     "CompleteTransferTask", "RangeCompleteTransferTask", "CompleteReplicationTask",
     "CompleteTimerTask", "RangeCompleteTimerTask", "LeaseTaskList", "UpdateTaskList",
     "DeleteTaskList", "CreateTasks", "CompleteTask", "CompleteTasksLessThan",
     "GetTimerIndexTasks"}

IterCloseErrorOperations == {"GetTransferTasks", "GetReplicationTasks", "GetTasks"}

\* The error an operation returns for an error of the backend.
OperationError(op, err) ==
    CASE op \in BatchOperations -> BatchError(err)
      [] op \in ExecErrorOperations -> ExecError(err)
      [] op \in IterCloseErrorOperations -> IterCloseError(err)

\* The batch an operation hands to MapExecuteBatchCAS, and the error that
\* ends the call before the batch is built.
BatchOf(op, request) ==
    CASE op = "CreateWorkflowExecution" -> CreateWorkflowExecutionBatch(request)
      [] op = "UpdateWorkflowExecution" -> UpdateWorkflowExecutionBatch(request)
      [] op = "ResetWorkflowExecution" ->
            [err |-> NoError, batch |-> ResetWorkflowExecutionBatch(request)]
      [] op = "ResetMutableState" ->
            [err |-> NoError, batch |-> ResetMutableStateBatch(request)]

\* The tables MapExecuteBatchCAS may leave when it reports err.  After a
\* timeout the batch was carried out as MapExecuteBatchCAS carries it out
\* (as a whole if its conditions held) or not at all; a request the backend
\* refused was not carried out.
TablesAfterError(db, batch, err) ==
    IF isTimeoutError(err) THEN {db, MapExecuteBatchCAS(db, batch).db} ELSE {db}

\* A create (in a mode other than Zombie), update (of a run that is not
\* made a Zombie), or reset whose batch ends with an error of the backend.
BatchFails(op, request, err) ==
    /\ Idle
    /\ op = "CreateWorkflowExecution" => request.CreateWorkflowMode # CreateWorkflowModeZombie
    /\ op = "UpdateWorkflowExecution" => ~UpdateAssertsNotCurrent(request)
    /\ BatchOf(op, request).err = NoError
    /\ \E db \in TablesAfterError(executions, BatchOf(op, request).batch, err) :
           /\ executions' = db
           /\ last' = [op |-> op, request |-> request, backendError |-> err,
                       batch |-> BatchOf(op, request).batch,
                       res |-> OperationError(op, err),
                       pre |-> executions, preApplied |-> applied]
    /\ calls' = calls + 1
    /\ UNCHANGED <<tasksTable, pending, applied, granted>>

\* The errors with which the backend refuses a request.
RefusedErrors == {"overloaded", "unavailable"}

\* Any other operation whose statement or read the backend refuses: the
\* tables are as they were.
OperationRefused(op, err) ==
    /\ Idle
    /\ last' = [op |-> op, request |-> Null, backendError |-> err, batch |-> <<>>,
                res |-> OperationError(op, err),
                pre |-> executions, preApplied |-> applied]
    /\ calls' = calls + 1
    /\ UNCHANGED <<executions, tasksTable, pending, applied, granted>>

\* The requests of the batches, issued with either range_id.
BatchRequests(op) ==
    CASE op = "CreateWorkflowExecution" -> CreateRequests
      [] op = "UpdateWorkflowExecution" -> UpdateRequests \cup ContinueAsNewRequests
      [] op = "ResetWorkflowExecution" -> ResetRequests
      [] op = "ResetMutableState" -> ResetMutableStateRequests

InitErrors ==
    /\ executions \in {TableWithShard, TableWithWorkflow}
    /\ tasksTable = EmptyTasksTable
    /\ applied = Null
    /\ pending = Null
    /\ granted = {}
    /\ last = Null
    /\ calls = 0

\* Every call ends with an error of the backend; the tables a successful
\* batch would leave are those a batch leaves that timed out after it was
\* carried out.
NextErrors ==
    \/ \E op \in BatchOperations, err \in BackendErrors :
           \E request \in BatchRequests(op) : BatchFails(op, request, err)
    \/ \E op \in ExecErrorOperations \cup IterCloseErrorOperations, err \in RefusedErrors :
           OperationRefused(op, err)
    \/ Return

SpecErrors == InitErrors /\ [][NextErrors]_vars

\* The finished call ended with an error of the backend.
BackendFailed ==
    /\ last # Null
    /\ "backendError" \in DOMAIN last

BatchTimedOut ==
    /\ BackendFailed
    /\ last.op \in BatchOperations
    /\ isTimeoutError(last.backendError)

\* C31: when the backend reports a timeout for the batch of a create,
\* update or reset, the call returns TimeoutError, which is none of success,
\* ServiceBusyError, ConditionFailedError and InternalServiceError, and the
\* table afterwards is the table before the call or that table with every
\* statement of the batch applied.
C31_BatchTimeout ==
    BatchTimedOut =>
        /\ last.res = TimeoutError
        /\ last.res \notin {NoError, ServiceBusyError, InternalServiceError}
        /\ last.res.err # "ConditionFailed"
        /\ executions \in {last.pre, ApplyBatch(last.pre, last.batch)}

\* An update whose batch timed out after it was applied: TimeoutError, and
\* the run has the NextEventID of the request.
C31_Witness ==
    /\ BatchTimedOut
    /\ last.op = "UpdateWorkflowExecution"
    /\ last.res = TimeoutError
    /\ executions # last.pre
    /\ executions = ApplyBatch(last.pre, last.batch)

\* C32 as stated: whatever the operation, an error of the backend that
\* signals throttling is returned as ServiceBusyError and never as
\* InternalServiceError.
C32_ThrottlingIsBusy ==
    (BackendFailed /\ isThrottlingError(last.backendError)) =>
        /\ last.res = ServiceBusyError
        /\ last.res # InternalServiceError

====
